---- MODULE Spec2Model ----
(***************************************************************************)
(* Verification model of the trip-agent repository.                        *)
(*                                                                         *)
(* Part 1: UserInterfaceAgent (src/src/agents/user_interface.py), the      *)
(*         conversational state machine over preference completeness.      *)
(* Part 2: the browser UI session (src/src/ui/app.py) and the HTTP API     *)
(*         session with its background pipeline (src/src/api/app.py).      *)
(* Part 3: the analyst interview graph                                     *)
(*         (src/src/agents/destination_research_assistant/graph.py).       *)
(*                                                                         *)
(* The language model, the search services and the planner are             *)
(* nondeterministic inputs: every action draws their replies from small    *)
(* sets with \E.                                                           *)
(***************************************************************************)
EXTENDS Integers, Sequences, FiniteSets, TLC

(***************************************************************************)
(* Bounds of the model.                                                    *)
(***************************************************************************)
\* number of process() turns explored per conversation
MaxTurns == 3
\* number of fields in one extraction reply of the language model
MaxExtractKeys == 2
\* number of chat messages explored per browser session
MaxMessages == 4
\* number of POST /chat requests explored per API session
MaxRequests == 3
\* longest list of items in the reply of the extraction model call
MaxCandidates == 2
\* longest attraction list handed to the distance calculator
MaxAttractions == 3

VARIABLES
    conversation_history,   \* UserInterfaceAgent.conversation_history (roles)
    conversation_context,   \* UserInterfaceAgent.conversation_context
    user_preferences,       \* the preferences record held by the caller / session
    last_call,              \* the arguments of the last process() call
    processing_status,      \* st.session_state.processing_status
    destination_report,     \* session: the stored destination report
    attractions,            \* session: the stored attraction list
    trip_plan,              \* session: the stored trip plan
    ui_last,                \* what the last run of the UI script did
    destination_name,       \* API session: session["destination_name"]
    background_tasks,       \* API: the background pipeline tasks, in scheduling order
    api_requests,           \* API: number of POST /chat requests served
    api_last,               \* API: what the last request did and returned
    iv_messages,            \* interview: InterviewState["messages"]
    iv_context,             \* interview: InterviewState["context"]
    iv_interview,           \* interview: InterviewState["interview"]
    iv_sections,            \* interview: InterviewState["sections"]
    iv_running,             \* interview: nodes of the current superstep still running
    iv_writes,              \* interview: writes of the nodes that finished in this superstep
    iv_log,                 \* interview: the nodes in the order they finished
    rp_state,               \* report graph: the channels of DestinationReportState
    rp_running,             \* report graph: tasks of the current superstep still running
    rp_writes,              \* report graph: writes of the tasks that finished in this superstep
    rp_rounds,              \* report graph: rounds each interview task has completed
    rp_runs,                \* report graph: how many times each node has been started
    ex,                     \* attraction extraction: AttractionExtractionAgent.process in progress
    dc,                     \* distance calculator: calculate_attraction_distances in progress
    fn                      \* the last call of a planner helper: its inputs and its result

agent_vars == <<conversation_history, conversation_context, user_preferences, last_call>>
session_vars == <<processing_status, destination_report, attractions, trip_plan>>
ui_vars == <<ui_last>>
api_vars == <<destination_name, background_tasks, api_requests, api_last>>
interview_vars == <<iv_messages, iv_context, iv_interview, iv_sections,
                    iv_running, iv_writes, iv_log>>
report_vars == <<rp_state, rp_running, rp_writes, rp_rounds, rp_runs>>
tool_vars == <<ex, dc, fn>>

(***************************************************************************)
(* Python values: None, str, list and date-like text.  A date-like text is *)
(* kept in its parsed shape (which separators it uses and its three        *)
(* numbers) so that strptime can be modelled by what it accepts.           *)
(***************************************************************************)
NoneVal == [t |-> "none"]
Str(s) == [t |-> "str", v |-> s]
List(q) == [t |-> "list", items |-> q]
DateText(f, x, y, z) == [t |-> "datetext", fmt |-> f, a |-> x, b |-> y, c |-> z]

\* Python truthiness of a value (`if value`, `not getattr(...)`)
Truthy(x) ==
    CASE x.t = "none" -> FALSE
      [] x.t = "str" -> x.v # ""
      [] x.t = "list" -> x.items # <<>>
      [] x.t = "datetext" -> TRUE

(***************************************************************************)
(* ConversationState and ConversationContext                               *)
(***************************************************************************)
GREETING == "greeting"
COLLECTING_DESTINATION == "collecting_destination"
COLLECTING_DATES == "collecting_dates"
COLLECTING_INTERESTS == "collecting_interests"
COLLECTING_BUDGET == "collecting_budget"
COLLECTING_ACCOMMODATION == "collecting_accommodation"
COLLECTING_ADDITIONAL_PREFERENCES == "collecting_additional_preferences"
CONFIRMATION == "confirmation"
READY == "ready"
REFINEMENT == "refinement"

ConversationState ==
    {GREETING, COLLECTING_DESTINATION, COLLECTING_DATES, COLLECTING_INTERESTS,
     COLLECTING_BUDGET, COLLECTING_ACCOMMODATION, COLLECTING_ADDITIONAL_PREFERENCES,
     CONFIRMATION, READY, REFINEMENT}

ConversationContext == [state |-> GREETING, missing_info |-> {}, confirmed |-> FALSE]

(***************************************************************************)
(* UserPreferences: the fields the conversation logic reads.  The other    *)
(* fields of the record (name, travel_style, ...) are written by the same  *)
(* generic branch as budget_range and are read by nothing modelled here.   *)
(***************************************************************************)
PreferenceFields ==
    {"destination", "start_date", "end_date", "interests", "budget_range", "accommodation_type"}

UserPreferences ==
    [destination |-> NoneVal, start_date |-> NoneVal, end_date |-> NoneVal,
     interests |-> List(<<>>), budget_range |-> NoneVal, accommodation_type |-> NoneVal]

\* `user_preferences or UserPreferences()`
OrDefaultPreferences(p) == IF p = NoneVal THEN UserPreferences ELSE p

(***************************************************************************)
(* Text as a sequence of characters: lower() and the `in` substring test.  *)
(***************************************************************************)
UpperCase == <<"A","B","C","D","E","F","G","H","I","J","K","L","M",
               "N","O","P","Q","R","S","T","U","V","W","X","Y","Z">>
LowerCase == <<"a","b","c","d","e","f","g","h","i","j","k","l","m",
               "n","o","p","q","r","s","t","u","v","w","x","y","z">>

LowerChar(ch) ==
    IF \E i \in 1..26 : UpperCase[i] = ch
    THEN LowerCase[CHOOSE i \in 1..26 : UpperCase[i] = ch]
    ELSE ch

Lower(s) == [i \in 1..Len(s) |-> LowerChar(s[i])]

\* Python `p in s` for strings
IsSubstring(p, s) ==
    \E i \in 0..(Len(s) - Len(p)) : SubSeq(s, i + 1, i + Len(p)) = p

affirmative_words ==
    << <<"y", "e", "s">>,
       <<"c", "o", "r", "r", "e", "c", "t">>,
       <<"r", "i", "g", "h", "t">>,
       <<"s", "u", "r", "e">>,
       <<"c", "o", "n", "f", "i", "r", "m">>,
       <<"p", "r", "o", "c", "e", "e", "d">>,
       <<"l", "o", "o", "k", "s", " ", "g", "o", "o", "d">>,
       <<"s", "o", "u", "n", "d", "s", " ", "g", "o", "o", "d">>,
       <<"g", "o", " ", "o", "n">>,
       <<"c", "a", "r", "r", "y", " ", "o", "n">> >>

\* a confirmation test that forgets lower()
IsAffirmativeCaseSensitive(input_text) ==
    \E i \in 1..Len(affirmative_words) : IsSubstring(affirmative_words[i], input_text)

\* any(word in input_text.lower() for word in affirmative_words)
IsAffirmative(input_text) ==
    \E i \in 1..Len(affirmative_words) : IsSubstring(affirmative_words[i], Lower(input_text))

\* user messages explored
TextEmpty == <<>>
TextYes == <<"Y", "E", "S", " ", "p", "l", "e", "a", "s", "e">>
TextNo == <<"n", "o">>

UserTexts == {TextEmpty, TextYes, TextNo}

(***************************************************************************)
(* datetime.strptime / strftime on the five formats of                     *)
(* _extract_preferences.  A date is <<year, month, day>>.                  *)
(***************************************************************************)
NoDate == <<>>

IsLeap(y) == (y % 4 = 0 /\ y % 100 # 0) \/ y % 400 = 0

DaysInMonth(y, m) ==
    CASE m \in {1, 3, 5, 7, 8, 10, 12} -> 31
      [] m \in {4, 6, 9, 11} -> 30
      [] m = 2 -> IF IsLeap(y) THEN 29 ELSE 28
      [] OTHER -> 0

ValidDate(y, m, d) == y \in 1..9999 /\ m \in 1..12 /\ d \in 1..DaysInMonth(y, m)

\* datetime.strptime(value, fmt): the date, or NoDate for ValueError
strptime(value, fmt) ==
    CASE fmt = "%Y-%m-%d" /\ value.fmt = "dash" /\ ValidDate(value.a, value.b, value.c) ->
            <<value.a, value.b, value.c>>
      [] fmt = "%m/%d/%Y" /\ value.fmt = "slash" /\ ValidDate(value.c, value.a, value.b) ->
            <<value.c, value.a, value.b>>
      [] fmt = "%d/%m/%Y" /\ value.fmt = "slash" /\ ValidDate(value.c, value.b, value.a) ->
            <<value.c, value.b, value.a>>
      [] fmt = "%B %d, %Y" /\ value.fmt = "month_name" /\ ValidDate(value.c, value.a, value.b) ->
            <<value.c, value.a, value.b>>
      [] fmt = "%b %d, %Y" /\ value.fmt = "month_abbr" /\ ValidDate(value.c, value.a, value.b) ->
            <<value.c, value.a, value.b>>
      [] OTHER -> NoDate

\* date_value.strftime('%Y-%m-%d')
strftime_iso(d) == DateText("dash", d[1], d[2], d[3])

date_formats == <<"%Y-%m-%d", "%m/%d/%Y", "%d/%m/%Y", "%B %d, %Y", "%b %d, %Y">>

\* the first format of the list that parses the value, 0 when none does
FirstMatchingFormat(value) ==
    IF \E i \in 1..Len(date_formats) : strptime(value, date_formats[i]) # NoDate
    THEN CHOOSE i \in 1..Len(date_formats) :
            /\ strptime(value, date_formats[i]) # NoDate
            /\ \A j \in 1..(i - 1) : strptime(value, date_formats[j]) = NoDate
    ELSE 0

(***************************************************************************)
(* Replies of the language model to the extraction prompt.                 *)
(***************************************************************************)
DateFields == {"start_date", "end_date"}

\* keys a reply may carry: the modelled fields and one key UserPreferences lacks
ReplyKeys == PreferenceFields \cup {"travelers"}

\* date texts a reply may carry
Date_2025_07_01 == DateText("dash", 2025, 7, 1)      \* "2025-07-01"
Date_25_07_2025 == DateText("slash", 25, 7, 2025)    \* "25/07/2025", day first only
Date_07_04_2025 == DateText("slash", 7, 4, 2025)     \* "07/04/2025", month first
DateNextWeek == DateText("free", 0, 0, 0)            \* "next week"

ReplyValues(k) ==
    CASE k = "destination" -> {NoneVal, Str("Paris")}
      [] k = "start_date" -> {Date_2025_07_01, Date_25_07_2025, DateNextWeek}
      [] k = "end_date" -> {Date_07_04_2025, DateNextWeek}
      [] k = "interests" -> {List(<<>>), List(<<"food">>)}
      [] k = "budget_range" -> {Str(""), Str("mid-range")}
      [] k = "accommodation_type" -> {Str("hotel")}
      [] k = "travelers" -> {Str("2")}

AllReplyValues == UNION {ReplyValues(k) : k \in ReplyKeys}

\* the JSON objects a reply may parse to
ExtractedObjects ==
    UNION {{e \in [S -> AllReplyValues] : \A k \in S : e[k] \in ReplyValues(k)} :
           S \in {T \in SUBSET ReplyKeys : Cardinality(T) <= MaxExtractKeys}}

\* a reply either fails json.loads or parses to an object
ExtractionReplies ==
    {[kind |-> "unparseable", fields |-> <<>>]} \cup
    {[kind |-> "object", fields |-> e] : e \in ExtractedObjects}

(***************************************************************************)
(* UserInterfaceAgent._extract_preferences                                 *)
(***************************************************************************)
\* hasattr(preferences, key)
HasAttr(k) == k \in PreferenceFields

\* the value a date field ends with: the ISO text of the first format that
\* parses, and the previous value when no format does (the loop ends
\* without raising, so the fallback of the except branch is never taken)
ExtractDate(old, value) ==
    IF FirstMatchingFormat(value) # 0
    THEN strftime_iso(strptime(value, date_formats[FirstMatchingFormat(value)]))
    ELSE old

\* the loop body without the `and value` test
ExtractFieldNoTruthTest(old, k, extracted) ==
    IF k \in DOMAIN extracted /\ HasAttr(k)
    THEN IF k \in DateFields /\ extracted[k].t = "datetext"
         THEN ExtractDate(old, extracted[k])
         ELSE extracted[k]
    ELSE old

\* the loop body of `for key, value in extracted.items()` for one field
ExtractField(old, k, extracted) ==
    IF k \in DOMAIN extracted /\ HasAttr(k) /\ Truthy(extracted[k])
    THEN IF k \in DateFields /\ extracted[k].t = "datetext"
         THEN ExtractDate(old, extracted[k])
         ELSE extracted[k]
    ELSE old

extract_preferences(input_text, existing_preferences, reply) ==
    LET preferences == OrDefaultPreferences(existing_preferences) IN
    IF input_text = <<>> THEN preferences
    ELSE IF reply.kind # "object" THEN preferences
    ELSE [k \in PreferenceFields |-> ExtractField(preferences[k], k, reply.fields)]

(***************************************************************************)
(* UserInterfaceAgent._update_conversation_context                         *)
(***************************************************************************)
MissingInfo(preferences) ==
    {k \in {"destination", "start_date", "end_date", "interests"} : ~Truthy(preferences[k])}

\* the chain with the date test placed before the destination test
StateForDatesFirst(preferences, missing_info, confirmed) ==
    IF missing_info = {} /\ ~confirmed THEN CONFIRMATION
    ELSE IF missing_info = {} /\ confirmed THEN READY
    ELSE IF "start_date" \in missing_info \/ "end_date" \in missing_info THEN COLLECTING_DATES
    ELSE IF "destination" \in missing_info THEN COLLECTING_DESTINATION
    ELSE IF "interests" \in missing_info THEN COLLECTING_INTERESTS
    ELSE IF ~Truthy(preferences.budget_range) THEN COLLECTING_BUDGET
    ELSE IF ~Truthy(preferences.accommodation_type) THEN COLLECTING_ACCOMMODATION
    ELSE COLLECTING_ADDITIONAL_PREFERENCES

\* the if/elif chain, in its order
StateFor(preferences, missing_info, confirmed) ==
    IF missing_info = {} /\ ~confirmed THEN CONFIRMATION
    ELSE IF missing_info = {} /\ confirmed THEN READY
    ELSE IF "destination" \in missing_info THEN COLLECTING_DESTINATION
    ELSE IF "start_date" \in missing_info \/ "end_date" \in missing_info THEN COLLECTING_DATES
    ELSE IF "interests" \in missing_info THEN COLLECTING_INTERESTS
    ELSE IF ~Truthy(preferences.budget_range) THEN COLLECTING_BUDGET
    ELSE IF ~Truthy(preferences.accommodation_type) THEN COLLECTING_ACCOMMODATION
    ELSE COLLECTING_ADDITIONAL_PREFERENCES

UpdateContextWith(context, preferences, missing_info) ==
    [context EXCEPT !.missing_info = missing_info,
                    !.state = StateFor(preferences, missing_info, context.confirmed)]

update_conversation_context(context, preferences) ==
    UpdateContextWith(context, preferences, MissingInfo(preferences))

(***************************************************************************)
(* UserInterfaceAgent._generate_response: its only effect on the agent is  *)
(* the secondary confirmation rule of the CONFIRMATION branch.             *)
(***************************************************************************)
HistoryThreshold == 4

generate_response(context, history) ==
    IF context.state = CONFIRMATION /\ Len(history) >= HistoryThreshold
    THEN [context EXCEPT !.confirmed = TRUE]
    ELSE context

(***************************************************************************)
(* UserInterfaceAgent.process                                              *)
(***************************************************************************)
\* lines 124-133: the affirmative reply while in CONFIRMATION
CheckConfirmation(context, input_text) ==
    IF context.state = CONFIRMATION /\ input_text # <<>> /\ IsAffirmative(input_text)
    THEN [context EXCEPT !.confirmed = TRUE, !.state = READY]
    ELSE context

\* lines 138-150 of process: the context update, the response and the result
ProcessUpdated(context1, history1, updated_preferences) ==
    [context |-> generate_response(
                    update_conversation_context(context1, updated_preferences), history1),
     history |-> Append(history1, "assistant"),
     preferences |-> updated_preferences]

\* the agent after process(input_text, passed) with the given model reply:
\* its context, its history and the preferences it returns
process(context, history, input_text, passed, reply) ==
    ProcessUpdated(CheckConfirmation(context, input_text),
                   IF input_text # <<>> THEN Append(history, "user") ELSE history,
                   extract_preferences(input_text, passed, reply))

\* number of completed process() calls: each appends one assistant message
Turns(history) == Cardinality({i \in 1..Len(history) : history[i] = "assistant"})

(***************************************************************************)
(* The agent driven directly by a caller.  The caller passes back the      *)
(* preferences of the previous turn, or passes none.                       *)
(***************************************************************************)
InitAgent ==
    /\ conversation_history = <<>>
    /\ conversation_context = ConversationContext
    /\ user_preferences = NoneVal
    /\ last_call = [input_text |-> <<>>, passed_back |-> FALSE, parsed |-> FALSE]

\* the model is asked for a reply only when the message is not empty
RepliesTo(input_text) ==
    IF input_text = <<>> THEN {[kind |-> "unparseable", fields |-> <<>>]} ELSE ExtractionReplies

(***************************************************************************)
(* Session state of the browser UI: init_session_state                     *)
(***************************************************************************)
NoStage == "none"

InitSession ==
    /\ processing_status = NoneVal
    /\ destination_report = NoneVal
    /\ attractions = NoneVal
    /\ trip_plan = NoneVal
    /\ ui_last = [input |-> FALSE, stage |-> NoStage, agent_returned |-> FALSE, raised |-> FALSE]

\* get_session: the fields the UI session does not have
InitApi ==
    /\ destination_name = NoneVal
    /\ background_tasks = <<>>
    /\ api_requests = 0
    /\ api_last = [kind |-> "none", scheduled |-> FALSE, trip_plan |-> NoneVal]

\* the interview graph invoked with Send("conduct_interview", {analyst,
\* destination, max_num_turns}): empty channels, START -> ask_question
InitInterview ==
    /\ iv_messages = <<>>
    /\ iv_context = <<>>
    /\ iv_interview = NoneVal
    /\ iv_sections = <<>>
    /\ iv_running = {"ask_question"}
    /\ iv_writes = {}
    /\ iv_log = <<>>

\* the analysts of create_analysts, by position in its list
NumAnalysts == 6

ReportNodes ==
    {"create_analysts", "human_feedback", "conduct_interview", "write_introduction",
     "write_content", "write_conclusion", "finalize_report"}

\* a task of the report graph: a node, and for a Send the analyst it carries
Task(node, analyst) == [node |-> node, analyst |-> analyst]

\* report_graph.stream(initial_state, ...): START -> create_analysts
InitReport ==
    /\ rp_state = [analysts |-> <<>>, sections |-> <<>>, introduction |-> NoneVal,
                   content |-> NoneVal, conclusion |-> NoneVal, report |-> NoneVal,
                   barrier |-> {}]
    /\ rp_running = {Task("create_analysts", 0)}
    /\ rp_writes = {}
    /\ rp_rounds = [i \in 1..NumAnalysts |-> 0]
    /\ rp_runs = [n \in ReportNodes |-> IF n = "create_analysts" THEN 1 ELSE 0]

\* nothing has been called yet
InitTools ==
    /\ ex = [pc |-> "idle", error |-> "none",
             extract_reply |-> [json |-> "invalid", items |-> <<>>], enrich_replies |-> <<>>,
             extracted_attractions |-> <<>>, has_enriched |-> FALSE,
             enriched_attractions |-> <<>>, current_attraction_index |-> 0,
             steps |-> 0, enrich_runs |-> 0, result |-> <<>>]
    /\ dc = [pc |-> "idle", error |-> "none", names |-> <<>>, has_address |-> <<>>,
             prior |-> NoneVal, heap |-> <<>>, copies |-> <<>>, coords |-> {},
             resolved |-> <<>>, i |-> 0, result |-> <<>>]
    /\ fn = [name |-> "none", args |-> <<>>, result |-> NoneVal]

Init == InitAgent /\ InitSession /\ InitApi /\ InitInterview /\ InitReport /\ InitTools

vars == <<agent_vars, session_vars, ui_vars, api_vars, interview_vars, report_vars,
          tool_vars>>

(***************************************************************************)
(* The agent driven directly by a caller.  The caller passes back the      *)
(* preferences of the previous turn, or passes none.                       *)
(***************************************************************************)
Process(input_text, pass_back, reply) ==
    /\ Turns(conversation_history) < MaxTurns
    /\ \E r \in {process(conversation_context, conversation_history, input_text,
                         IF pass_back THEN user_preferences ELSE NoneVal, reply)} :
           /\ conversation_context' = r.context
           /\ conversation_history' = r.history
           /\ user_preferences' = r.preferences
    /\ last_call' = [input_text |-> input_text, passed_back |-> pass_back,
                     parsed |-> (input_text # <<>> /\ reply.kind = "object")]
    /\ UNCHANGED <<session_vars, ui_vars, api_vars, interview_vars, report_vars, tool_vars>>

NextAgent ==
    \E input_text \in UserTexts, pass_back \in BOOLEAN :
        \E reply \in RepliesTo(input_text) : Process(input_text, pass_back, reply)

SpecAgent == Init /\ [][NextAgent]_vars

(***************************************************************************)
(* Browser UI (src/src/ui/app.py): one action is one run of main().        *)
(***************************************************************************)
STATUS_DESTINATION_REPORT == Str("destination_report")
STATUS_ATTRACTION_EXTRACTION == Str("attraction_extraction")
STATUS_TRIP_PLANNING == Str("trip_planning")
STATUS_COMPLETED == Str("completed")

\* what the three pipeline agents may do when called: raise, or return
Raised == [ok |-> FALSE, value |-> NoneVal]
Returned(x) == [ok |-> TRUE, value |-> x]

\* DestinationReportAgent.process(...)["report"] is always a string
ReportOutcomes == {Raised, Returned(Str("report"))}

\* AttractionExtractionAgent.process returns the list of attractions (names)
ExtractionOutcomes == {Raised, Returned(List(<<>>)), Returned(List(<<"Louvre">>))}

\* the attraction names of the activities the planner's model reply schedules
PlannedNames == {<<>>, <<"Louvre">>, <<"Eiffel Tower">>}

\* TripPlanningReactAgent.create_trip: each activity's attraction is found by
\* exact name among the attractions, and stays None when no name matches
create_trip(plan, attraction_names) ==
    [activities |->
        [i \in 1..Len(plan) |->
            IF \E j \in 1..Len(attraction_names) : attraction_names[j] = plan[i]
            THEN Str(plan[i])
            ELSE NoneVal]]

\* TripPlanningReactAgent.process given the stored attractions
PlanningOutcomes(stored_attractions) ==
    {Raised} \cup
    {Returned(create_trip(plan, IF stored_attractions = NoneVal THEN <<>>
                                ELSE stored_attractions.items)) : plan \in PlannedNames}

\* lines 259-271: writing the plan file reads activity.attraction.name of
\* every activity, which raises AttributeError on a None attraction
WritePlanFileRaises(trip) ==
    \E i \in 1..Len(trip.activities) : trip.activities[i] = NoneVal

\* the agent replies a stage may see
StageOutcomes(status, stored_attractions) ==
    CASE status = STATUS_DESTINATION_REPORT -> ReportOutcomes
      [] status = STATUS_ATTRACTION_EXTRACTION -> ExtractionOutcomes
      [] status = STATUS_TRIP_PLANNING -> PlanningOutcomes(stored_attractions)
      [] OTHER -> {Raised}

\* continue_trip_planning_process, guarded as in main() lines 477-480: the
\* session after the stage that `status` selects has run with outcome `out`
continue_trip_planning_process(status, session, out, had_input) ==
    IF status = NoneVal \/ status = STATUS_COMPLETED
    THEN [session EXCEPT !.processing_status = status,
             !.last = [input |-> had_input, stage |-> NoStage,
                       agent_returned |-> FALSE, raised |-> FALSE]]
    ELSE IF ~out.ok
    THEN [session EXCEPT !.processing_status = status,
             !.last = [input |-> had_input, stage |-> status.v,
                       agent_returned |-> FALSE, raised |-> TRUE]]
    ELSE IF status = STATUS_DESTINATION_REPORT
    THEN [session EXCEPT !.destination_report = out.value,
             !.processing_status = STATUS_ATTRACTION_EXTRACTION,
             !.last = [input |-> had_input, stage |-> status.v,
                       agent_returned |-> TRUE, raised |-> FALSE]]
    ELSE IF status = STATUS_ATTRACTION_EXTRACTION
    THEN [session EXCEPT !.attractions = out.value,
             !.processing_status = STATUS_TRIP_PLANNING,
             !.last = [input |-> had_input, stage |-> status.v,
                       agent_returned |-> TRUE, raised |-> FALSE]]
    ELSE IF WritePlanFileRaises(out.value)
    THEN [session EXCEPT !.trip_plan = out.value,
             !.processing_status = status,
             !.last = [input |-> had_input, stage |-> status.v,
                       agent_returned |-> TRUE, raised |-> TRUE]]
    ELSE [session EXCEPT !.trip_plan = out.value,
             !.processing_status = STATUS_COMPLETED,
             !.last = [input |-> had_input, stage |-> status.v,
                       agent_returned |-> TRUE, raised |-> FALSE]]

Session ==
    [processing_status |-> processing_status, destination_report |-> destination_report,
     attractions |-> attractions, trip_plan |-> trip_plan, last |-> ui_last]

SetSession(session) ==
    /\ processing_status' = session.processing_status
    /\ destination_report' = session.destination_report
    /\ attractions' = session.attractions
    /\ trip_plan' = session.trip_plan
    /\ ui_last' = session.last

\* process_message_locally lines 143-155: the status after a chat message
StatusAfterMessage(status, context, preferences) ==
    IF /\ context.state = READY
       /\ Truthy(preferences.destination)
       /\ Truthy(preferences.start_date)
       /\ Truthy(preferences.end_date)
    THEN STATUS_DESTINATION_REPORT
    ELSE status

\* main() with a chat message: process_message_locally, then the pending stage
UiMessage(input_text, reply) ==
    /\ input_text # <<>>
    /\ Turns(conversation_history) < MaxMessages
    /\ \E r \in {process(conversation_context, conversation_history, input_text,
                         user_preferences, reply)} :
         \E status \in {StatusAfterMessage(processing_status, r.context, r.preferences)} :
           \E out \in StageOutcomes(status, attractions) :
             /\ conversation_context' = r.context
             /\ conversation_history' = r.history
             /\ user_preferences' = r.preferences
             /\ SetSession(continue_trip_planning_process(status, Session, out, TRUE))
    /\ last_call' = [input_text |-> input_text, passed_back |-> TRUE,
                     parsed |-> reply.kind = "object"]
    /\ UNCHANGED <<api_vars, interview_vars, report_vars, tool_vars>>

\* st.rerun() was called by the last run: a stage finished without raising
RerunRequested == ui_last.stage # NoStage /\ ~ui_last.raised

\* main() without a chat message, started by st.rerun()
UiRerun ==
    /\ RerunRequested
    /\ \E out \in StageOutcomes(processing_status, attractions) :
         SetSession(continue_trip_planning_process(processing_status, Session, out, FALSE))
    /\ UNCHANGED <<agent_vars, api_vars, interview_vars, report_vars, tool_vars>>

NextUi ==
    \/ \E input_text \in UserTexts, reply \in ExtractionReplies : UiMessage(input_text, reply)
    \/ UiRerun

SpecUi == Init /\ [][NextUi]_vars

(***************************************************************************)
(* HTTP API (src/src/api/app.py).  get_agents builds new agents for every  *)
(* request, so the User Interface Agent of a request starts in GREETING    *)
(* with an empty history; only the session dictionary persists.            *)
(***************************************************************************)
\* whether `process` of each pipeline agent is declared `async def`
IsCoroutineFunction ==
    [destination_report |-> FALSE,      \* destination_report.py line 85: def process
     attraction_extraction |-> TRUE,    \* attraction_extraction.py: async def process
     trip_planning |-> TRUE]            \* trip_planning_react.py line 77: async def process

\* `await agent.process(...)`: awaiting the dict a plain function returned
\* raises TypeError
AwaitRaises(agent) == ~IsCoroutineFunction[agent]

\* f.write(x) accepts a str only
FileWriteRaises(x) == ~("t" \in DOMAIN x /\ x.t = "str")

\* chat lines 182-196: enough information to schedule the pipeline
HasTripEssentials(preferences) ==
    /\ Truthy(preferences.destination)
    /\ Truthy(preferences.start_date)
    /\ Truthy(preferences.end_date)

\* POST /chat with `input_text` the content of the last message ("" if none)
ApiChat(input_text, reply) ==
    /\ api_requests < MaxRequests
    /\ api_requests' = api_requests + 1
    /\ \E r \in {process(ConversationContext, <<>>, input_text, user_preferences, reply)} :
         /\ conversation_context' = r.context
         /\ conversation_history' = r.history
         /\ user_preferences' = r.preferences
         /\ background_tasks' =
                IF HasTripEssentials(r.preferences)
                THEN Append(background_tasks, [pc |-> "scheduled", agents_returned |-> TRUE])
                ELSE background_tasks
         /\ api_last' = [kind |-> "chat", scheduled |-> HasTripEssentials(r.preferences),
                         trip_plan |-> trip_plan]
    /\ last_call' = [input_text |-> input_text, passed_back |-> TRUE,
                     parsed |-> (input_text # <<>> /\ reply.kind = "object")]
    /\ UNCHANGED <<session_vars, ui_vars, destination_name, interview_vars, report_vars, tool_vars>>

\* GET /trip_plan/{user_id}
ApiGetTripPlan ==
    /\ api_requests > 0
    /\ api_last' = [kind |-> "get", scheduled |-> FALSE, trip_plan |-> trip_plan]
    /\ UNCHANGED <<agent_vars, session_vars, ui_vars, destination_name,
                   background_tasks, api_requests, interview_vars, report_vars, tool_vars>>

\* the session and the task after task `task` ran from its position to its
\* next suspension point, the agent it calls there answering `out`
generate_trip_plan_background(task, session, out) ==
    IF ~out.ok
    THEN [session |-> IF task.pc = "scheduled"
                      THEN [session EXCEPT !.destination_name = user_preferences.destination]
                      ELSE session,
          task |-> [pc |-> "failed", agents_returned |-> FALSE]]
    ELSE IF task.pc = "scheduled"
    THEN IF AwaitRaises("destination_report")
         THEN [session |-> [session EXCEPT !.destination_name = user_preferences.destination],
               task |-> [task EXCEPT !.pc = "failed"]]
         ELSE IF FileWriteRaises(out.value)
         THEN [session |-> [session EXCEPT
                              !.destination_name = user_preferences.destination,
                              !.destination_report = out.value],
               task |-> [task EXCEPT !.pc = "failed"]]
         ELSE [session |-> [session EXCEPT
                              !.destination_name = user_preferences.destination,
                              !.destination_report = out.value],
               task |-> [task EXCEPT !.pc = "extract"]]
    ELSE IF task.pc = "extract"
    THEN IF AwaitRaises("attraction_extraction")
         THEN [session |-> session, task |-> [task EXCEPT !.pc = "failed"]]
         ELSE [session |-> [session EXCEPT !.attractions = out.value],
               task |-> [task EXCEPT !.pc = "plan"]]
    ELSE IF AwaitRaises("trip_planning") \/ FileWriteRaises(out.value)
         THEN [session |-> session, task |-> [task EXCEPT !.pc = "failed"]]
         ELSE [session |-> [session EXCEPT !.trip_plan = out.value],
               task |-> [task EXCEPT !.pc = "done"]]

\* the agent replies a background task may see at its position
TaskOutcomes(task, stored_attractions) ==
    CASE task.pc = "scheduled" -> ReportOutcomes
      [] task.pc = "extract" -> ExtractionOutcomes
      [] OTHER -> PlanningOutcomes(stored_attractions)

ApiSession ==
    [destination_name |-> destination_name, destination_report |-> destination_report,
     attractions |-> attractions, trip_plan |-> trip_plan]

\* one step of background task i
ApiBackground(i) ==
    /\ background_tasks[i].pc \notin {"done", "failed"}
    /\ \E out \in TaskOutcomes(background_tasks[i], attractions) :
         \E r \in {generate_trip_plan_background(background_tasks[i], ApiSession, out)} :
           /\ destination_name' = r.session.destination_name
           /\ destination_report' = r.session.destination_report
           /\ attractions' = r.session.attractions
           /\ trip_plan' = r.session.trip_plan
           /\ background_tasks' = [background_tasks EXCEPT ![i] = r.task]
    /\ UNCHANGED <<agent_vars, processing_status, ui_vars, api_requests, api_last,
                   interview_vars, report_vars, tool_vars>>

NextApi ==
    \/ \E input_text \in UserTexts : \E reply \in RepliesTo(input_text) :
          ApiChat(input_text, reply)
    \/ ApiGetTripPlan
    \/ \E i \in 1..Len(background_tasks) : ApiBackground(i)

SpecApi == Init /\ [][NextApi]_vars

(***************************************************************************)
(* Analyst interview (destination_research_assistant/graph.py), run by the  *)
(* graph engine in supersteps: the nodes of a superstep run concurrently,  *)
(* their writes are applied together when the last of them has returned,   *)
(* and the edges of the nodes that ran select the next superstep.  Every   *)
(* model, search and loader call is taken to return.                       *)
(***************************************************************************)
\* "max_num_turns" of the Send in initiate_all_interviews
max_num_turns == 3
\* the message limit of route_messages
MessageLimit == 6

\* llm.invoke returns an AIMessage without a name; `thanks` says whether its
\* content contains "thank you" or "thanks" when lower-cased
AIMessage(name, thanks) == [type |-> "ai", name |-> name, thanks |-> thanks]

\* generate_question: {"messages": [question]}
generate_question ==
    {[channel |-> "messages", value |-> AIMessage(NoneVal, thanks)] : thanks \in BOOLEAN}

\* search_web: {"context": [formatted_search_docs]}, the documents that have
\* both "url" and "content" (up to max_results of them, here none or one)
search_web ==
    {[channel |-> "context", value |-> [source |-> "web", docs |-> n]] : n \in 0..1}

\* search_wikipedia: {"context": [formatted_search_docs]}
search_wikipedia ==
    {[channel |-> "context", value |-> [source |-> "wikipedia", docs |-> n]] : n \in 0..1}

\* generate_answer: the reply is named "expert"
generate_answer ==
    {[channel |-> "messages", value |-> AIMessage(Str("expert"), thanks)] : thanks \in BOOLEAN}

\* get_buffer_string: one "AI: <content>" line per message
get_buffer_string(messages) ==
    [i \in 1..Len(messages) |-> [prefix |-> "AI", thanks |-> messages[i].thanks]]

\* save_interview: {"interview": interview}
save_interview_node(messages) ==
    {[channel |-> "interview", value |-> Str(get_buffer_string(messages))]}

\* write_section: {"sections": [section.content]}
write_section_node ==
    {[channel |-> "sections", value |-> <<Str("section")>>]}

NumResponses(messages, name) ==
    Cardinality({i \in 1..Len(messages) :
                    messages[i].type = "ai" /\ messages[i].name = Str(name)})

\* route_messages with the comparisons strict
route_messages_strict(messages) ==
    IF NumResponses(messages, "expert") > max_num_turns THEN "save_interview"
    ELSE IF Len(messages) > MessageLimit THEN "save_interview"
    ELSE IF \E i \in 1..Len(messages) : messages[i].type = "human" /\ messages[i].thanks
    THEN "save_interview"
    ELSE "ask_question"

\* route_messages, lines 207-232
route_messages(messages) ==
    IF NumResponses(messages, "expert") >= max_num_turns THEN "save_interview"
    ELSE IF Len(messages) >= MessageLimit THEN "save_interview"
    ELSE IF \E i \in 1..Len(messages) : messages[i].type = "human" /\ messages[i].thanks
    THEN "save_interview"
    ELSE "ask_question"

\* what a node may return, given the state it reads
NodeOutputs(node, messages) ==
    CASE node = "ask_question" -> generate_question
      [] node = "search_web" -> search_web
      [] node = "search_wikipedia" -> search_wikipedia
      [] node = "answer_question" -> generate_answer
      [] node = "save_interview" -> save_interview_node(messages)
      [] node = "write_section" -> write_section_node

\* the edges of lines 313-320; route_messages reads the messages with the
\* answer already appended
Successors(node, messages_after) ==
    CASE node = "ask_question" -> {"search_web", "search_wikipedia"}
      [] node = "search_web" -> {"answer_question"}
      [] node = "search_wikipedia" -> {"answer_question"}
      [] node = "answer_question" -> {route_messages(messages_after)}
      [] node = "save_interview" -> {"write_section"}
      [] node = "write_section" -> {}

\* the engine applies the writes of a superstep in the order of the node names
NodeOrder ==
    <<"answer_question", "ask_question", "save_interview",
      "search_web", "search_wikipedia", "write_section">>

RECURSIVE ChannelWrites(_, _, _)
\* the values written to `channel` by the nodes NodeOrder[i..], in order
ChannelWrites(writes, channel, i) ==
    IF i > Len(NodeOrder) THEN <<>>
    ELSE LET here == {w \in writes : w.node = NodeOrder[i] /\ w.channel = channel}
         IN  (IF here = {} THEN <<>> ELSE <<(CHOOSE w \in here : TRUE).value>>)
             \o ChannelWrites(writes, channel, i + 1)

LastOr(q, default) == IF q = <<>> THEN default ELSE q[Len(q)]

\* one node of the running superstep returns `out`
RunNode(node, out) ==
    /\ node \in iv_running
    /\ iv_log' = Append(iv_log, node)
    /\ \E writes \in {iv_writes \cup {[node |-> node, channel |-> out.channel,
                                        value |-> out.value]}} :
         IF iv_running # {node}
         THEN /\ iv_running' = iv_running \ {node}
              /\ iv_writes' = writes
              /\ UNCHANGED <<iv_messages, iv_context, iv_interview, iv_sections>>
         ELSE \E messages_after \in {iv_messages \o ChannelWrites(writes, "messages", 1)} :
                /\ iv_messages' = messages_after
                /\ iv_context' = iv_context \o ChannelWrites(writes, "context", 1)
                /\ iv_interview' = LastOr(ChannelWrites(writes, "interview", 1), iv_interview)
                /\ iv_sections' = LastOr(ChannelWrites(writes, "sections", 1), iv_sections)
                /\ iv_running' = UNION {Successors(w.node, messages_after) : w \in writes}
                /\ iv_writes' = {}
    /\ UNCHANGED <<agent_vars, session_vars, ui_vars, api_vars, report_vars, tool_vars>>

NextInterview ==
    \E node \in iv_running : \E out \in NodeOutputs(node, iv_messages) : RunNode(node, out)

SpecInterview == Init /\ [][NextInterview]_vars

\* every call of a node returns, so a node that is running finishes
SpecInterviewFair == SpecInterview /\ WF_vars(NextInterview)

(***************************************************************************)
(* Report graph (destination_report.py _create_report_graph), run in       *)
(* supersteps like the interview graph.  An interview task is the compiled *)
(* interview graph: it runs its rounds and returns its final state, of     *)
(* which the report graph keeps the one-element "sections".                *)
(***************************************************************************)
Writers == {"write_introduction", "write_content", "write_conclusion"}

\* create_analysts: {"analysts": analysts}
create_analysts == [i \in 1..NumAnalysts |-> i]

\* initiate_all_interviews with one analyst left out
initiate_all_but_last(analysts) ==
    {Task("conduct_interview", analysts[i]) : i \in 1..(Len(analysts) - 1)}

\* initiate_all_interviews: one Send per analyst
initiate_all_interviews(analysts) ==
    {Task("conduct_interview", analysts[i]) : i \in 1..Len(analysts)}

\* the section that the interview of an analyst returns
SectionOf(analyst) == [analyst |-> analyst]

\* what a task of the report graph writes, given the state it reads
ReportNodeWrites(task, state) ==
    CASE task.node = "create_analysts" ->
            {[task |-> task, channel |-> "analysts", value |-> List(create_analysts)]}
      [] task.node = "human_feedback" -> {}
      [] task.node = "conduct_interview" ->
            {[task |-> task, channel |-> "sections", value |-> List(<<SectionOf(task.analyst)>>)]}
      [] task.node = "write_introduction" ->
            {[task |-> task, channel |-> "introduction",
              value |-> [t |-> "str", v |-> "introduction", about |-> state.sections]]}
      [] task.node = "write_content" ->
            {[task |-> task, channel |-> "content", value |-> List(state.sections)]}
      [] task.node = "write_conclusion" ->
            {[task |-> task, channel |-> "conclusion",
              value |-> [t |-> "str", v |-> "conclusion", about |-> state.sections]]}
      [] task.node = "finalize_report" ->
            {[task |-> task, channel |-> "report",
              value |-> [introduction |-> state.introduction, content |-> state.content,
                         conclusion |-> state.conclusion]]}

RECURSIVE SectionWrites(_, _)
\* the sections written in a superstep, in the order of the Sends
SectionWrites(writes, i) ==
    IF i > NumAnalysts THEN <<>>
    ELSE LET here == {w \in writes : w.channel = "sections" /\ w.task.analyst = i}
         IN  (IF here = {} THEN <<>> ELSE (CHOOSE w \in here : TRUE).value.items)
             \o SectionWrites(writes, i + 1)

LastWrite(writes, channel, old) ==
    IF \E w \in writes : w.channel = channel
    THEN (CHOOSE w \in writes : w.channel = channel).value
    ELSE old

\* the state after the writes of a superstep whose tasks were `ran`
ApplyReportWrites(state, writes, ran) ==
    [analysts |-> LastWrite(writes, "analysts", List(state.analysts)).items,
     sections |-> state.sections \o SectionWrites(writes, 1),
     introduction |-> LastWrite(writes, "introduction", state.introduction),
     content |-> LastWrite(writes, "content", state.content),
     conclusion |-> LastWrite(writes, "conclusion", state.conclusion),
     report |-> LastWrite(writes, "report", state.report),
     barrier |-> IF state.barrier = Writers THEN {n \in Writers : Task(n, 0) \in ran}
                 ELSE state.barrier \cup {n \in Writers : Task(n, 0) \in ran}]

\* the edges of lines 324-331: the tasks of the next superstep
NextReportTasks(state_after, ran) ==
    (IF Task("create_analysts", 0) \in ran THEN {Task("human_feedback", 0)} ELSE {})
    \cup (IF Task("human_feedback", 0) \in ran
          THEN initiate_all_interviews(state_after.analysts) ELSE {})
    \cup (IF \E t \in ran : t.node = "conduct_interview"
          THEN {Task(n, 0) : n \in Writers} ELSE {})
    \cup (IF (\E t \in ran : t.node \in Writers) /\ state_after.barrier = Writers
          THEN {Task("finalize_report", 0)} ELSE {})

\* task `task` of the running superstep returns
FinishReportTask(task) ==
    /\ task \in rp_running
    /\ \E writes \in {rp_writes \cup ReportNodeWrites(task, rp_state)} :
       \E ran \in {{w.task : w \in writes} \cup {task}} :
         IF rp_running # {task}
         THEN /\ rp_running' = rp_running \ {task}
              /\ rp_writes' = writes \cup {[task |-> task, channel |-> "none", value |-> NoneVal]}
              /\ UNCHANGED <<rp_state, rp_runs>>
         ELSE \E after \in {ApplyReportWrites(rp_state, writes, ran)} :
              \E next \in {NextReportTasks(after, ran)} :
                /\ rp_state' = after
                /\ rp_running' = next
                /\ rp_writes' = {}
                /\ rp_runs' = [n \in ReportNodes |->
                                  rp_runs[n] + Cardinality({t \in next : t.node = n})]

\* a node other than an interview returns
RunReportNode(node) ==
    /\ node # "conduct_interview"
    /\ FinishReportTask(Task(node, 0))
    /\ UNCHANGED <<rp_rounds, agent_vars, session_vars, ui_vars, api_vars, interview_vars,
                   tool_vars>>

\* the interview of `analyst` completes a question/answer round; after the
\* round that makes route_messages choose save_interview it returns
ConductInterview(analyst) ==
    /\ Task("conduct_interview", analyst) \in rp_running
    /\ rp_rounds[analyst] < max_num_turns
    /\ rp_rounds' = [rp_rounds EXCEPT ![analyst] = @ + 1]
    /\ IF rp_rounds'[analyst] = max_num_turns
       THEN FinishReportTask(Task("conduct_interview", analyst))
       ELSE UNCHANGED <<rp_state, rp_running, rp_writes, rp_runs>>
    /\ UNCHANGED <<agent_vars, session_vars, ui_vars, api_vars, interview_vars, tool_vars>>

NextReport ==
    \/ \E node \in ReportNodes : RunReportNode(node)
    \/ \E analyst \in 1..NumAnalysts : ConductInterview(analyst)

SpecReport == Init /\ [][NextReport]_vars

(***************************************************************************)
(* Attraction extraction (attraction_extraction.py).  The graph state is a *)
(* TypedDict: a node sees only the keys that have been written, so         *)
(* state["k"] of a key never written raises KeyError.                      *)
(***************************************************************************)
\* "recursion_limit" of the thread configuration
recursion_limit == 100

Weekdays ==
    {"Monday", "Tuesday", "Wednesday", "Thursday", "Friday", "Saturday", "Sunday"}

\* an item of the JSON array the extraction reply holds: an object with or
\* without the required key "extracted_from", or a value that is no object
CandidateItem(name) == [shape |-> "object", name |-> name, extracted_from |-> TRUE]
ItemWithoutSection(name) == [shape |-> "object", name |-> name, extracted_from |-> FALSE]
NotAnObject == [shape |-> "string", name |-> "", extracted_from |-> FALSE]

ReplyItems == {CandidateItem("A"), CandidateItem("B"), ItemWithoutSection("A"), NotAnObject}

\* replies of the extraction call: text json.loads rejects, a JSON value
\* that is no array, or an array of items
ExtractReplies ==
    {[json |-> "invalid", items |-> <<>>], [json |-> "number", items |-> <<>>]}
    \cup {[json |-> "array", items |-> q] :
            q \in UNION {[1..n -> ReplyItems] : n \in 0..MaxCandidates}}

RECURSIVE CandidatesFrom(_, _)
\* [AttractionCandidate(**a) for a in attractions_data] from item i on:
\* ** of a non-mapping raises TypeError, a missing required field raises
\* ValidationError, which is a ValueError
CandidatesFrom(items, i) ==
    IF i > Len(items) THEN [error |-> "none", value |-> <<>>]
    ELSE IF items[i].shape # "object" THEN [error |-> "TypeError", value |-> <<>>]
    ELSE IF ~items[i].extracted_from THEN [error |-> "ValidationError", value |-> <<>>]
    ELSE LET rest == CandidatesFrom(items, i + 1)
         IN  IF rest.error # "none" THEN rest
             ELSE [error |-> "none", value |-> <<[name |-> items[i].name]>> \o rest.value]

\* extract_attractions lines 198-205: the try block and its except clause
extract_attractions(reply) ==
    IF reply.json = "invalid" THEN [error |-> "none", value |-> <<>>]
    ELSE IF reply.json # "array" THEN [error |-> "none", value |-> <<>>]
    ELSE LET r == CandidatesFrom(reply.items, 1)
         IN  IF r.error = "TypeError" THEN [error |-> "none", value |-> <<>>] ELSE r

\* should_enrich_next_attraction
should_enrich_next_attraction(extracted_attractions, current_index) ==
    IF current_index < Len(extracted_attractions) THEN "enrich_attraction" ELSE "finalize"

\* replies of the enrichment call: text json.loads rejects, or an object
\* whose rating is a number or a word and whose price is a string or a number
EnrichReplies ==
    {[json |-> "invalid", rating |-> "null", price |-> "null"],
     [json |-> "object", rating |-> "number", price |-> "string"],
     [json |-> "object", rating |-> "word", price |-> "string"],
     [json |-> "object", rating |-> "number", price |-> "number"]}

\* validation of Attraction(...): rating is Optional[float], price is
\* Optional[str]; model_copy (distance_calculator.py line 184) is pydantic 2,
\* which does not turn a number into a string
AttractionValidates(reply) == reply.rating # "word" /\ reply.price # "number"

MinimalAttraction(candidate) ==
    [name |-> candidate.name, visit_duration |-> "60",
     opening_hours |-> [d \in Weekdays |-> "Missing"], travel_info |-> NoneVal]

EnrichedAttraction(candidate) ==
    [name |-> candidate.name, visit_duration |-> "120",
     opening_hours |-> [d \in Weekdays |-> "9:00 AM - 5:00 PM"], travel_info |-> NoneVal]

\* enrich_attraction lines 291-369: the attraction built for `candidate`, or
\* the exception that leaves the node
enrich_attraction(candidate, reply) ==
    IF reply.json = "invalid" THEN [error |-> "none", value |-> MinimalAttraction(candidate)]
    ELSE IF ~AttractionValidates(reply) THEN [error |-> "ValidationError", value |-> NoneVal]
    ELSE [error |-> "none", value |-> EnrichedAttraction(candidate)]

\* what calculate_attraction_distances does to process: it raises, or it
\* returns copies that carry a travel_info
DistanceOutcomes(enriched) ==
    {[ok |-> FALSE, value |-> enriched],
     [ok |-> TRUE, value |-> [i \in 1..Len(enriched) |->
                                [enriched[i] EXCEPT !.travel_info = Str("computed")]]]}

ExRaised(state, error) == [state EXCEPT !.pc = "raised", !.error = error]

\* process lines 104-116 and the node extract_attractions
ExtractAttractions(reply) ==
    /\ ex.pc = "idle"
    /\ \E r \in {extract_attractions(reply)} :
       \E started \in {[ex EXCEPT !.extract_reply = reply, !.steps = 1]} :
         ex' = IF r.error # "none" THEN ExRaised(started, r.error)
               ELSE [started EXCEPT !.extracted_attractions = r.value,
                                    !.pc = should_enrich_next_attraction(r.value, 0)]
    /\ UNCHANGED <<agent_vars, session_vars, ui_vars, api_vars, interview_vars, report_vars,
                   dc, fn>>

\* the node enrich_attraction
EnrichAttraction(reply) ==
    /\ ex.pc = "enrich_attraction"
    /\ \E r \in {enrich_attraction(ex.extracted_attractions[ex.current_attraction_index + 1],
                                   reply)} :
       \E ran \in {[ex EXCEPT !.steps = @ + 1, !.enrich_runs = @ + 1,
                              !.enrich_replies = Append(@, reply)]} :
         ex' = IF ex.steps >= recursion_limit THEN ExRaised(ex, "GraphRecursionError")
               ELSE IF r.error # "none" THEN ExRaised(ran, r.error)
               ELSE [ran EXCEPT
                       !.enriched_attractions = Append(@, r.value),
                       !.has_enriched = TRUE,
                       !.current_attraction_index = @ + 1,
                       !.pc = should_enrich_next_attraction(
                                 ex.extracted_attractions, ex.current_attraction_index + 1)]
    /\ UNCHANGED <<agent_vars, session_vars, ui_vars, api_vars, interview_vars, report_vars,
                   dc, fn>>

\* the node finalize and process line 119: state["enriched_attractions"]
FinalizeAttractions ==
    /\ ex.pc = "finalize"
    /\ ex' = IF ex.steps >= recursion_limit THEN ExRaised(ex, "GraphRecursionError")
             ELSE IF ~ex.has_enriched THEN ExRaised([ex EXCEPT !.steps = @ + 1], "KeyError")
             ELSE [ex EXCEPT !.steps = @ + 1, !.pc = "distances"]
    /\ UNCHANGED <<agent_vars, session_vars, ui_vars, api_vars, interview_vars, report_vars,
                   dc, fn>>

\* process lines 121-129: the distances, and the return
ReturnAttractions(out) ==
    /\ ex.pc = "distances"
    /\ ex' = [ex EXCEPT !.pc = "returned", !.result = out.value]
    /\ UNCHANGED <<agent_vars, session_vars, ui_vars, api_vars, interview_vars, report_vars,
                   dc, fn>>

NextExtraction ==
    \/ \E reply \in ExtractReplies : ExtractAttractions(reply)
    \/ \E reply \in EnrichReplies : EnrichAttraction(reply)
    \/ FinalizeAttractions
    \/ \E out \in DistanceOutcomes(ex.enriched_attractions) : ReturnAttractions(out)

SpecExtraction == Init /\ [][NextExtraction]_vars

(***************************************************************************)
(* Distance calculator (utils/distance_calculator.py).  Attraction objects *)
(* live on a heap, so that a copy and an alias can be told apart: the      *)
(* caller's list holds the objects 1..n.                                   *)
(***************************************************************************)
Dict(f) == [t |-> "dict", f |-> f]
EmptyDict == Dict(<<>>)

AttractionNames == {"A", "B"}

\* a travel_info the caller's attractions may carry from an earlier call
OldTravelInfo == Dict([x \in {"B"} |-> [distance |-> 7, time |-> 1]])

\* what one request to the geocoding endpoint can do: give coordinates, give
\* nothing (status other than 200, or a body without results), or fail in
\* the network, which raises in session.get
GeocodeOutcomes == {"coords", "none", "raise"}

\* what one request to the directions endpoint can do
DirectionOutcomes == {"route", "none", "raise"}

\* calculate_walking_distance for a request that did not raise
calculate_walking_distance(outcome) ==
    IF outcome = "route" THEN [distance |-> 350, time |-> 4]
    ELSE [distance |-> 0, time |-> 0]

\* lines 166-178: the three geocoding attempts for one attraction, given the
\* outcome of each request that is made
Geocode(has_address, o) ==
    IF o[1] # "none" THEN o[1]
    ELSE IF has_address /\ o[2] # "none" THEN o[2]
    ELSE o[3]

\* attraction.model_copy() with the copy being the same object
model_copy_alias(id, n) == id

\* attraction.model_copy(): a new object
model_copy(id, n) == n + id

\* calculate_attraction_distances lines 150-163, on a list of attractions
\* with the given names, addresses and earlier travel_info
CalculateDistances(names, has_address, prior, api_key) ==
    /\ dc.pc = "idle"
    /\ dc' = IF ~api_key
             THEN [dc EXCEPT !.pc = "raised", !.error = "ValueError", !.names = names,
                             !.has_address = has_address, !.prior = prior,
                             !.heap = [id \in 1..Len(names) |-> [travel_info |-> prior]]]
             ELSE [dc EXCEPT !.pc = IF Len(names) = 0 THEN "pairs" ELSE "geocoding",
                             !.names = names, !.has_address = has_address, !.prior = prior,
                             !.heap = [id \in 1..Len(names) |-> [travel_info |-> prior]],
                             !.i = 1]
    /\ UNCHANGED <<agent_vars, session_vars, ui_vars, api_vars, interview_vars, report_vars,
                   ex, fn>>

\* the heap with object `id` created or overwritten
Store(heap, id, object) ==
    [x \in (DOMAIN heap) \cup {id} |-> IF x = id THEN object ELSE heap[x]]

\* lines 166-186: one round of the first loop, for attraction dc.i
GeocodeAttraction(o) ==
    /\ dc.pc = "geocoding"
    /\ \E outcome \in {Geocode(dc.has_address[dc.i], o)} :
       \E copy \in {model_copy(dc.i, Len(dc.names))} :
         dc' = IF outcome = "raise"
               THEN [dc EXCEPT !.pc = "raised", !.error = "ClientError"]
               ELSE [dc EXCEPT
                       !.coords = IF outcome = "coords" THEN @ \cup {dc.names[dc.i]} ELSE @,
                       !.resolved = Append(@, outcome = "coords"),
                       !.heap = Store(Store(@, copy, dc.heap[dc.i]), copy,
                                      [travel_info |-> EmptyDict]),
                       !.copies = Append(@, copy),
                       !.i = IF dc.i = Len(dc.names) THEN 1 ELSE dc.i + 1,
                       !.pc = IF dc.i = Len(dc.names) THEN "pairs" ELSE "geocoding"]
    /\ UNCHANGED <<agent_vars, session_vars, ui_vars, api_vars, interview_vars, report_vars,
                   ex, fn>>

\* lines 199-200: the attractions a distance is asked for from `name`
OthersOf(name, names, coords) ==
    {j \in 1..Len(names) : names[j] # name /\ names[j] \in coords}

\* lines 190-216: one round of the second loop, for the copy at position
\* dc.i, given the outcome of the directions request to each other position
PairDistances(o) ==
    /\ dc.pc = "pairs"
    /\ dc.i <= Len(dc.names)
    /\ \E name \in {dc.names[dc.i]} :
       \E others \in {OthersOf(name, dc.names, dc.coords)} :
         dc' = IF name \notin dc.coords
               THEN [dc EXCEPT !.i = @ + 1]
               ELSE IF \E j \in others : o[j] = "raise"
               THEN [dc EXCEPT !.pc = "raised", !.error = "ClientError"]
               ELSE [dc EXCEPT
                       !.heap = Store(@, dc.copies[dc.i],
                                  [travel_info |->
                                     Dict([x \in {dc.names[j] : j \in others} |->
                                            calculate_walking_distance(
                                               o[CHOOSE j \in others :
                                                    /\ dc.names[j] = x
                                                    /\ \A k \in others :
                                                         dc.names[k] = x => k <= j])])]),
                       !.i = @ + 1]
    /\ UNCHANGED <<agent_vars, session_vars, ui_vars, api_vars, interview_vars, report_vars,
                   ex, fn>>

\* line 220: return attractions_with_travel_info
ReturnDistances ==
    /\ dc.pc = "pairs"
    /\ dc.i > Len(dc.names)
    /\ dc' = [dc EXCEPT !.pc = "returned", !.result = dc.copies]
    /\ UNCHANGED <<agent_vars, session_vars, ui_vars, api_vars, interview_vars, report_vars,
                   ex, fn>>

AttractionLists == UNION {[1..n -> AttractionNames] : n \in 0..MaxAttractions}

NextDistance ==
    \/ \E names \in AttractionLists :
         \E has_address \in [1..Len(names) -> BOOLEAN] :
           \E prior \in {NoneVal, OldTravelInfo}, api_key \in BOOLEAN :
             CalculateDistances(names, has_address, prior, api_key)
    \/ \E o \in [1..3 -> GeocodeOutcomes] : GeocodeAttraction(o)
    \/ \E o \in [1..MaxAttractions -> DirectionOutcomes] : PairDistances(o)
    \/ ReturnDistances

SpecDistance == Init /\ [][NextDistance]_vars

(***************************************************************************)
(* Text helpers of the planners: int(), str.split, str.strip, upper(),     *)
(* strftime("%B"), strftime("%Y"), strftime("%A").                         *)
(***************************************************************************)
Digits == <<"0", "1", "2", "3", "4", "5", "6", "7", "8", "9">>

IsDigit(ch) == \E i \in 1..10 : Digits[i] = ch

IsLetter(ch) == \E i \in 1..26 : UpperCase[i] = ch \/ LowerCase[i] = ch

DigitValue(ch) == (CHOOSE i \in 1..10 : Digits[i] = ch) - 1

IsNumber(chars) == Len(chars) > 0 /\ \A i \in 1..Len(chars) : IsDigit(chars[i])

RECURSIVE IntOf(_)
\* int(chars) for a text of digits
IntOf(chars) ==
    IF chars = <<>> THEN 0
    ELSE 10 * IntOf(SubSeq(chars, 1, Len(chars) - 1)) + DigitValue(chars[Len(chars)])

UpperChar(ch) ==
    IF \E i \in 1..26 : LowerCase[i] = ch
    THEN UpperCase[CHOOSE i \in 1..26 : LowerCase[i] = ch]
    ELSE ch

Upper(chars) == [i \in 1..Len(chars) |-> UpperChar(chars[i])]

MonthNames ==
    << <<"J", "a", "n", "u", "a", "r", "y">>,
       <<"F", "e", "b", "r", "u", "a", "r", "y">>,
       <<"M", "a", "r", "c", "h">>,
       <<"A", "p", "r", "i", "l">>,
       <<"M", "a", "y">>,
       <<"J", "u", "n", "e">>,
       <<"J", "u", "l", "y">>,
       <<"A", "u", "g", "u", "s", "t">>,
       <<"S", "e", "p", "t", "e", "m", "b", "e", "r">>,
       <<"O", "c", "t", "o", "b", "e", "r">>,
       <<"N", "o", "v", "e", "m", "b", "e", "r">>,
       <<"D", "e", "c", "e", "m", "b", "e", "r">> >>

\* date.strftime("%B")
strftime_B(date) == MonthNames[date[2]]

\* date.strftime("%Y"): four digits
strftime_Y(date) ==
    <<Digits[((date[1] \div 1000) % 10) + 1], Digits[((date[1] \div 100) % 10) + 1],
      Digits[((date[1] \div 10) % 10) + 1], Digits[(date[1] % 10) + 1]>>

\* datetime.strptime(word, "%B").month, 0 standing for ValueError; month
\* names are matched without regard to case
MonthNumber(word) ==
    IF \E m \in 1..12 : Lower(MonthNames[m]) = Lower(word)
    THEN CHOOSE m \in 1..12 : Lower(MonthNames[m]) = Lower(word)
    ELSE 0

RECURSIVE DaysBeforeYear(_)
\* days from 2024-01-01 to the first day of year y >= 2024
DaysBeforeYear(y) ==
    IF y <= 2024 THEN 0
    ELSE DaysBeforeYear(y - 1) + (IF IsLeap(y - 1) THEN 366 ELSE 365)

RECURSIVE DaysBeforeMonth(_, _)
DaysBeforeMonth(y, m) ==
    IF m <= 1 THEN 0 ELSE DaysBeforeMonth(y, m - 1) + DaysInMonth(y, m - 1)

WeekdayNames ==
    <<"Monday", "Tuesday", "Wednesday", "Thursday", "Friday", "Saturday", "Sunday">>

\* date.strftime("%A") for dates from 2024 on; 2024-01-01 was a Monday
strftime_A(date) ==
    WeekdayNames[((DaysBeforeYear(date[1]) + DaysBeforeMonth(date[1], date[2])
                   + date[3] - 1) % 7) + 1]

\* a < b for datetime values at midnight
DateBefore(a, b) ==
    \/ a[1] < b[1]
    \/ a[1] = b[1] /\ a[2] < b[2]
    \/ a[1] = b[1] /\ a[2] = b[2] /\ a[3] < b[3]

(***************************************************************************)
(* A date_range text is kept as its tokens (words, numbers, blanks,        *)
(* punctuation); the text itself is their concatenation.                   *)
(***************************************************************************)
Word(chars) == [k |-> "word", c |-> chars]
Num(chars) == [k |-> "num", c |-> chars]
Sym(ch) == [k |-> "sym", c |-> <<ch>>]
Blank == Sym(" ")

RECURSIVE Render(_)
Render(tokens) ==
    IF tokens = <<>> THEN <<>> ELSE Head(tokens).c \o Render(Tail(tokens))

RangeJuly1To15 ==
    <<Word(<<"J", "u", "l", "y">>), Blank, Num(<<"1">>), Sym("-"), Num(<<"1", "5">>), Sym(","), Blank,
      Num(<<"2", "0", "2", "5">>)>>

RangeJuly20ToAugust15 ==
    <<Word(<<"J", "u", "l", "y">>), Blank, Num(<<"2", "0">>), Blank, Sym("-"), Blank, Word(<<"A", "u", "g", "u", "s", "t">>), Blank,
      Num(<<"1", "5">>), Sym(","), Blank, Num(<<"2", "0", "2", "5">>)>>

RangeJulyToAugust ==
    <<Word(<<"J", "u", "l", "y">>), Sym("-"), Word(<<"A", "u", "g", "u", "s", "t">>), Sym(","), Blank, Num(<<"2", "0", "2", "5">>)>>

RangeSometimeInSummer ==
    <<Word(<<"s", "o", "m", "e", "t", "i", "m", "e">>), Blank, Word(<<"i", "n">>), Blank, Word(<<"s", "u", "m", "m", "e", "r">>)>>

\* the date_range values explored: none, the three forms, free text
DateRanges ==
    {NoneVal, List(RangeJuly1To15), List(RangeJuly20ToAugust15), List(RangeJulyToAugust),
     List(RangeSometimeInSummer)}

\* the dates explored
CheckDates ==
    {<<2025, 7, 10>>, <<2025, 7, 20>>, <<2025, 7, 25>>, <<2025, 6, 30>>, <<2025, 8, 10>>,
     <<2025, 8, 20>>, <<2025, 9, 1>>, <<2024, 7, 10>>, <<2026, 7, 10>>}

IsTok(tokens, i, kind) == i >= 1 /\ i <= Len(tokens) /\ tokens[i].k = kind
IsSym(tokens, i, ch) == IsTok(tokens, i, "sym") /\ tokens[i].c = <<ch>>

RECURSIVE SkipBlanks(_, _)
\* \s*: the position after the blanks that start at i
SkipBlanks(tokens, i) ==
    IF IsSym(tokens, i, " ") THEN SkipBlanks(tokens, i + 1) ELSE i

\* \s+: the position after at least one blank at i, 0 if there is none
SomeBlanks(tokens, i) == IF IsSym(tokens, i, " ") THEN SkipBlanks(tokens, i) ELSE 0

NoMatch == [matched |-> FALSE, groups |-> <<>>]

\* \d{4} takes the first four digits of a number
FourDigits(tokens, i) == IsTok(tokens, i, "num") /\ Len(tokens[i].c) >= 4

\* ([A-Za-z]+)\s+(\d+)-(\d+),\s+(\d{4}) at token i
MatchDaysAt(tokens, i) ==
    LET a == SomeBlanks(tokens, i + 1)
        b == SomeBlanks(tokens, a + 4)
    IN  IF /\ IsTok(tokens, i, "word") /\ a > 0 /\ IsTok(tokens, a, "num")
           /\ IsSym(tokens, a + 1, "-") /\ IsTok(tokens, a + 2, "num")
           /\ IsSym(tokens, a + 3, ",") /\ b > 0 /\ FourDigits(tokens, b)
        THEN [matched |-> TRUE,
              groups |-> <<tokens[i].c, tokens[a].c, tokens[a + 2].c,
                           SubSeq(tokens[b].c, 1, 4)>>]
        ELSE NoMatch

\* ([A-Za-z]+)\s+(\d+)\s*-\s*([A-Za-z]+)\s+(\d+),\s+(\d{4}) at token i
MatchMonthDaysAt(tokens, i) ==
    LET a == SomeBlanks(tokens, i + 1)
        b == SkipBlanks(tokens, a + 1)
        c == SkipBlanks(tokens, b + 1)
        d == SomeBlanks(tokens, c + 1)
        e == SomeBlanks(tokens, d + 2)
    IN  IF /\ IsTok(tokens, i, "word") /\ a > 0 /\ IsTok(tokens, a, "num")
           /\ IsSym(tokens, b, "-") /\ IsTok(tokens, c, "word")
           /\ d > 0 /\ IsTok(tokens, d, "num") /\ IsSym(tokens, d + 1, ",")
           /\ e > 0 /\ FourDigits(tokens, e)
        THEN [matched |-> TRUE,
              groups |-> <<tokens[i].c, tokens[a].c, tokens[c].c, tokens[d].c,
                           SubSeq(tokens[e].c, 1, 4)>>]
        ELSE NoMatch

\* ([A-Za-z]+)\s*-\s*([A-Za-z]+),\s+(\d{4}) at token i
MatchMonthsAt(tokens, i) ==
    LET a == SkipBlanks(tokens, i + 1)
        b == SkipBlanks(tokens, a + 1)
        c == SomeBlanks(tokens, b + 2)
    IN  IF /\ IsTok(tokens, i, "word") /\ IsSym(tokens, a, "-") /\ IsTok(tokens, b, "word")
           /\ IsSym(tokens, b + 1, ",") /\ c > 0 /\ FourDigits(tokens, c)
        THEN [matched |-> TRUE,
              groups |-> <<tokens[i].c, tokens[b].c, SubSeq(tokens[c].c, 1, 4)>>]
        ELSE NoMatch

\* pattern p of date_formats at token i
MatchAt(p, tokens, i) ==
    CASE p = 1 -> MatchDaysAt(tokens, i)
      [] p = 2 -> MatchMonthDaysAt(tokens, i)
      [] OTHER -> MatchMonthsAt(tokens, i)

\* re.search(date_formats[p], text): the leftmost match
Search(p, tokens) ==
    IF \E i \in 1..Len(tokens) : MatchAt(p, tokens, i).matched
    THEN MatchAt(p, tokens,
                 CHOOSE i \in 1..Len(tokens) :
                     /\ MatchAt(p, tokens, i).matched
                     /\ \A j \in 1..(i - 1) : ~MatchAt(p, tokens, j).matched)
    ELSE NoMatch

(***************************************************************************)
(* Batch planner: TripPlanningAltAgent._is_attraction_available_on_date    *)
(***************************************************************************)
\* strptime(word, "%B") raises ValueError for a month group of patterns 2
\* and 3 that is not a month name
MonthRaises(p, g) ==
    \/ p = 2 /\ (MonthNumber(g[1]) = 0 \/ MonthNumber(g[3]) = 0)
    \/ p = 3 /\ (MonthNumber(g[1]) = 0 \/ MonthNumber(g[2]) = 0)

\* the condition under which the branch of pattern p returns True
InMatchedRange(p, g, date) ==
    \/ /\ p = 1
       /\ date[1] = IntOf(g[4])
       /\ Lower(strftime_B(date)) = Lower(g[1])
       /\ IntOf(g[2]) <= date[3] /\ date[3] <= IntOf(g[3])
    \/ /\ p = 2
       /\ date[1] = IntOf(g[5])
       /\ \/ date[2] > MonthNumber(g[1]) /\ date[2] < MonthNumber(g[3])
          \/ date[2] = MonthNumber(g[1]) /\ date[3] >= IntOf(g[2])
          \/ date[2] = MonthNumber(g[3]) /\ date[3] <= IntOf(g[4])
    \/ /\ p = 3
       /\ date[1] = IntOf(g[3])
       /\ MonthNumber(g[1]) <= date[2] /\ date[2] <= MonthNumber(g[2])

\* the body of the loop raises for pattern p
AltPatternRaises(p, tokens) ==
    \E m \in {Search(p, tokens)} : m.matched /\ MonthRaises(p, m.groups)

\* the body of the loop returns True for pattern p
AltPatternTrue(p, tokens, date) ==
    \E m \in {Search(p, tokens)} :
        m.matched /\ ~MonthRaises(p, m.groups) /\ InMatchedRange(p, m.groups, date)

\* the for loop over date_formats returns True
AltLoopTrue(tokens, date) ==
    \E p \in 1..3 :
        /\ AltPatternTrue(p, tokens, date)
        /\ \A q \in 1..(p - 1) : ~AltPatternRaises(q, tokens)

\* the for loop over date_formats raises before any pattern returns True
AltLoopRaises(tokens, date) ==
    \E p \in 1..3 :
        /\ AltPatternRaises(p, tokens)
        /\ \A q \in 1..(p - 1) :
              ~AltPatternRaises(q, tokens) /\ ~AltPatternTrue(q, tokens, date)

\* _is_attraction_available_on_date, lines 841-937: a pattern that matches
\* without its condition holding falls through to the next one and, after
\* the loop, to the two substring fallbacks
alt_is_attraction_available_on_date(date_range, date) ==
    IF ~Truthy(date_range) THEN TRUE
    ELSE IF AltLoopTrue(date_range.items, date) THEN TRUE
    ELSE IF AltLoopRaises(date_range.items, date) THEN FALSE
    ELSE \E text \in {Render(date_range.items)} :
            \/ /\ IsSubstring(Lower(strftime_B(date)), Lower(text))
               /\ IsSubstring(strftime_Y(date), text)
            \/ IsSubstring(strftime_Y(date), text)

\* a call of the batch planner's date matcher
AltAvailable(date_range, date) ==
    /\ fn.name = "none"
    /\ fn' = [name |-> "alt_is_attraction_available_on_date",
              args |-> <<date_range, date>>,
              result |-> [t |-> "bool", v |-> alt_is_attraction_available_on_date(date_range, date)]]
    /\ UNCHANGED <<agent_vars, session_vars, ui_vars, api_vars, interview_vars, report_vars,
                   ex, dc>>

(***************************************************************************)
(* ReAct planner tools (tools.py).  The patterns are raw strings written   *)
(* with doubled backslashes, r'^\\d{1,2}:\\d{2}$': in the regular          *)
(* expression "\\" is a literal backslash and "d{1,2}" one or two letters  *)
(* d, so the languages matched are the finite sets below.                  *)
(***************************************************************************)
\* r'^\\d{1,2}:\\d{2}$'
TimePattern == {<<"\\", "d", ":", "\\", "d", "d">>, <<"\\", "d", "d", ":", "\\", "d", "d">>}

\* r'^\\d{1,2}:\\d{2}-\\d{1,2}:\\d{2}$'
RangePattern == {x \o <<"-">> \o y : x \in TimePattern, y \in TimePattern}

Meridiems == {<<"A", "M">>, <<"P", "M">>}

\* r'^\\d{1,2}:\\d{2} [AP]M - \\d{1,2}:\\d{2} [AP]M$' before re.IGNORECASE
MeridiemRangePattern ==
    {x \o <<" ">> \o m \o <<" ", "-", " ">> \o y \o <<" ">> \o n :
        x \in TimePattern, y \in TimePattern, m \in Meridiems, n \in Meridiems}

\* re.match(pattern, text): letters are compared without case under
\* re.IGNORECASE
ReMatch(pattern, text, ignorecase) ==
    IF ignorecase THEN \E w \in pattern : Upper(w) = Upper(text)
    ELSE text \in pattern

RECURSIVE Split(_, _)
\* chars.split(sep) for a separator of one character
Split(chars, sep) ==
    IF \A i \in 1..Len(chars) : chars[i] # sep THEN <<chars>>
    ELSE LET k == CHOOSE i \in 1..Len(chars) :
                      chars[i] = sep /\ \A j \in 1..(i - 1) : chars[j] # sep
         IN  <<SubSeq(chars, 1, k - 1)>> \o Split(SubSeq(chars, k + 1, Len(chars)), sep)

RECURSIVE Strip(_)
\* chars.strip() for blanks
Strip(chars) ==
    IF chars # <<>> /\ Head(chars) = " " THEN Strip(Tail(chars))
    ELSE IF chars # <<>> /\ chars[Len(chars)] = " "
    THEN Strip(SubSeq(chars, 1, Len(chars) - 1))
    ELSE chars

\* hour, minute = map(int, time_str.split(":")); time(hour, minute): the
\* minutes since midnight, or -1 for ValueError
ParseTime(time_str) ==
    LET parts == Split(time_str, ":")
    IN  IF /\ Len(parts) = 2 /\ IsNumber(parts[1]) /\ IsNumber(parts[2])
           /\ IntOf(parts[1]) <= 23 /\ IntOf(parts[2]) <= 59
        THEN 60 * IntOf(parts[1]) + IntOf(parts[2])
        ELSE -1

HasKey(d, key) == key \in DOMAIN d.f

\* is_attraction_open_at_time, lines 14-109.  A range that matches one of
\* the patterns starts with a backslash, so int() of its hour raises
\* ValueError and the except clause of line 106 returns True.
is_attraction_open_at_time(attraction, date, time_str) ==
    IF attraction.opening_hours.t = "none" THEN TRUE
    ELSE LET hours == attraction.opening_hours
             day_of_week == IF HasKey(hours, strftime_A(date)) THEN strftime_A(date)
                            ELSE "default"
         IN  IF ~HasKey(hours, day_of_week) THEN FALSE
             ELSE LET opening_hours == hours.f[day_of_week]
                      time_ranges == Split(opening_hours, ",")
                  IN  IF Lower(opening_hours) = <<"c", "l", "o", "s", "e", "d">> THEN FALSE
                      ELSE IF ParseTime(time_str) = -1 THEN TRUE
                      ELSE IF \E i \in 1..Len(time_ranges) :
                                  \/ ReMatch(RangePattern, Strip(time_ranges[i]), FALSE)
                                  \/ ReMatch(MeridiemRangePattern, Strip(time_ranges[i]), TRUE)
                      THEN TRUE
                      ELSE FALSE

\* re.match of the three date patterns of lines 132, 140 and 148 needs
\* letters followed by a literal backslash at the start of the text
DatePatternCanMatch(text) ==
    \E k \in 1..(Len(text) - 1) :
        /\ \A i \in 1..k : IsLetter(text[i])
        /\ text[k + 1] = "\\"

\* is_attraction_available_on_date, lines 112-178.  A match binds the day
\* group to "\d" or "\dd", strptime raises ValueError on it and the except
\* clause of line 175 returns True; without a match line 173 returns True.
is_attraction_available_on_date(attraction, date) ==
    IF ~Truthy(attraction.date_range) THEN TRUE
    ELSE IF DatePatternCanMatch(Render(attraction.date_range.items)) THEN TRUE
    ELSE TRUE

\* the first attraction of the state with this name, 0 if there is none
FindAttraction(state, attraction_name) ==
    IF \E i \in 1..Len(state.attractions) : state.attractions[i].name = attraction_name
    THEN CHOOSE i \in 1..Len(state.attractions) :
            /\ state.attractions[i].name = attraction_name
            /\ \A j \in 1..(i - 1) : state.attractions[j].name # attraction_name
    ELSE 0

\* TripPlanningTools.check_opening_hours, lines 198-252
check_opening_hours(state, attraction_name, date_str, time_str) ==
    LET i == FindAttraction(state, attraction_name)
        date == strptime(date_str, "%Y-%m-%d")
    IN  IF i = 0 THEN [open |-> FALSE, error |-> "not found"]
        ELSE IF date = NoDate THEN [open |-> FALSE, error |-> "invalid date"]
        ELSE [open |-> is_attraction_open_at_time(state.attractions[i], date, time_str),
              error |-> "none"]

\* TripPlanningTools.check_attraction_availability, lines 254-295
check_attraction_availability(state, attraction_name, date_str) ==
    LET i == FindAttraction(state, attraction_name)
        date == strptime(date_str, "%Y-%m-%d")
    IN  IF i = 0 THEN [available |-> FALSE, error |-> "not found"]
        ELSE IF date = NoDate THEN [available |-> FALSE, error |-> "invalid date"]
        ELSE [available |-> is_attraction_available_on_date(state.attractions[i], date),
              error |-> "none"]

\* a datetime object, as opposed to the text of a date
Datetime(date) == [t |-> "datetime", v |-> date]

\* TripPlanningReactAgent.process, lines 109-118: the dates are stored in
\* the state as strings, a datetime through strftime("%Y-%m-%d")
ReactState(start_date, end_date, attraction_list) ==
    [start_date |-> IF start_date.t = "datetime"
                    THEN DateText("dash", start_date.v[1], start_date.v[2], start_date.v[3])
                    ELSE start_date,
     end_date |-> IF end_date.t = "datetime"
                  THEN DateText("dash", end_date.v[1], end_date.v[2], end_date.v[3])
                  ELSE end_date,
     attractions |-> attraction_list]

\* the violations of one activity, lines 328-395
ActivityViolations(state, date, activity) ==
    LET i == FindAttraction(state, activity.attraction_name)
    IN  IF i = 0 THEN <<"unknown_attraction">>
        ELSE (IF is_attraction_open_at_time(state.attractions[i], date, activity.start_time)
              THEN <<>> ELSE <<"opening_hours">>)
             \o (IF is_attraction_available_on_date(state.attractions[i], date)
                 THEN <<>> ELSE <<"date_range">>)
             \o (IF ReMatch(TimePattern, activity.start_time, FALSE)
                 THEN <<>> ELSE <<"invalid_time_format">>)
             \o (IF ReMatch(TimePattern, activity.end_time, FALSE)
                 THEN <<>> ELSE <<"invalid_time_format">>)

RECURSIVE ActivitiesViolations(_, _, _)
ActivitiesViolations(state, date, activities) ==
    IF activities = <<>> THEN <<>>
    ELSE ActivityViolations(state, date, Head(activities))
         \o ActivitiesViolations(state, date, Tail(activities))

\* date < other, line 322: a datetime is ordered only with a datetime, the
\* comparison with a str raises TypeError
Comparable(other) == other.t = "datetime"

\* the body of the loop over the days, lines 310-395
DayViolations(state, day) ==
    LET date == strptime(day.date, "%Y-%m-%d")
    IN  IF date = NoDate THEN [error |-> "none", violations |-> <<"invalid_date">>]
        ELSE IF ~Comparable(state.start_date) THEN [error |-> "TypeError", violations |-> <<>>]
        ELSE IF ~DateBefore(date, state.start_date.v) /\ ~Comparable(state.end_date)
        THEN [error |-> "TypeError", violations |-> <<>>]
        ELSE [error |-> "none",
              violations |->
                  (IF \/ DateBefore(date, state.start_date.v)
                      \/ DateBefore(state.end_date.v, date)
                   THEN <<"date_out_of_range">> ELSE <<>>)
                  \o ActivitiesViolations(state, date, day.activities)]

RECURSIVE DaysViolations(_, _)
DaysViolations(state, days) ==
    IF days = <<>> THEN [error |-> "none", violations |-> <<>>]
    ELSE LET first == DayViolations(state, Head(days))
             rest == DaysViolations(state, Tail(days))
         IN  IF first.error # "none" THEN first
             ELSE IF rest.error # "none" THEN rest
             ELSE [error |-> "none", violations |-> first.violations \o rest.violations]

\* TripPlanningTools.validate_itinerary, lines 297-401
validate_itinerary(state, itinerary) ==
    LET r == DaysViolations(state, itinerary)
    IN  IF r.error # "none"
        THEN [error |-> r.error, valid |-> FALSE, violations |-> <<>>, violation_count |-> 0]
        ELSE [error |-> "none", valid |-> Len(r.violations) = 0,
              violations |-> r.violations, violation_count |-> Len(r.violations)]

(***************************************************************************)
(* Calls of the planner helpers.  fn holds the call in progress: its name, *)
(* its arguments and what it returns.                                      *)
(***************************************************************************)
MaxDays == 2

Bool(b) == [t |-> "bool", v |-> b]

\* the opening-hours texts explored
HoursNineToFive == <<"0", "9", ":", "0", "0", "-", "1", "7", ":", "0", "0">>
HoursTwoRanges == <<"1", "0", ":", "0", "0", "-", "1", "3", ":", "0", "0", ",", " ", "1", "4", ":", "0", "0", "-", "1", "8", ":", "0", "0">>
HoursMeridiem == <<"9", ":", "0", "0", " ", "A", "M", " ", "-", " ", "5", ":", "0", "0", " ", "P", "M">>
HoursSunrise == <<"s", "u", "n", "r", "i", "s", "e", " ", "t", "o", " ", "s", "u", "n", "s", "e", "t">>
HoursBackslash == <<"\\", "d", "d", ":", "\\", "d", "d", "-", "\\", "d", "d", ":", "\\", "d", "d">>

HoursTexts ==
    {HoursNineToFive, HoursTwoRanges, HoursMeridiem, HoursSunrise, HoursBackslash,
     <<"C", "l", "o", "s", "e", "d">>, <<"C", "L", "O", "S", "E", "D">>}

\* the opening_hours values explored: none, Monday only, default only,
\* Monday closed with a default
OpeningHours ==
    {NoneVal}
    \cup {Dict([Monday |-> h]) : h \in HoursTexts}
    \cup {Dict([default |-> h]) : h \in HoursTexts}
    \cup {Dict([Monday |-> <<"c", "l", "o", "s", "e", "d">>, default |-> h]) : h \in HoursTexts}

\* the times explored; the last one is not HH:MM
TimeTexts == {<<"1", "0", ":", "0", "0">>, <<"1", "8", ":", "0", "0">>, <<"0", "8", ":", "3", "0">>, <<"1", "3", ":", "3", "0">>, <<"n", "o", "o", "n">>}

\* 2025-07-07 is a Monday
DateTexts == {DateText("dash", 2025, 7, 7), DateText("dash", 2025, 7, 8)}

Museum(opening_hours, date_range) ==
    [name |-> "Museum", opening_hours |-> opening_hours, date_range |-> date_range]

\* a call of the ReAct planner's date matcher
ToolAvailable(date_range, date) ==
    /\ fn.name = "none"
    /\ fn' = [name |-> "is_attraction_available_on_date",
              args |-> <<date_range, date>>,
              result |-> Bool(is_attraction_available_on_date(Museum(NoneVal, date_range), date))]
    /\ UNCHANGED <<agent_vars, session_vars, ui_vars, api_vars, interview_vars, report_vars,
                   ex, dc>>

\* a call of check_opening_hours, which calls is_attraction_open_at_time
CheckOpeningHours(opening_hours, date_str, time_str) ==
    /\ fn.name = "none"
    /\ fn' = [name |-> "check_opening_hours",
              args |-> <<opening_hours, date_str, time_str>>,
              result |-> check_opening_hours(
                             ReactState(date_str, date_str, <<Museum(opening_hours, NoneVal)>>),
                             "Museum", date_str, time_str)]
    /\ UNCHANGED <<agent_vars, session_vars, ui_vars, api_vars, interview_vars, report_vars,
                   ex, dc>>

\* the trip dates handed to process: datetime objects or their texts
TripStart == {Datetime(<<2025, 7, 7>>), DateText("dash", 2025, 7, 7)}
TripEnd == {Datetime(<<2025, 7, 9>>), DateText("dash", 2025, 7, 9)}

Activity(attraction_name, start_time, end_time) ==
    [attraction_name |-> attraction_name, start_time |-> start_time, end_time |-> end_time]

Day(date, activities) == [date |-> date, activities |-> activities]

\* the days explored: inside the trip, outside it, a date that does not parse
ItineraryDays ==
    {Day(d, acts) :
        d \in {DateText("dash", 2025, 7, 7), DateText("dash", 2025, 7, 8),
               DateText("dash", 2025, 7, 20), DateText("slash", 7, 8, 2025)},
        acts \in {<<>>, <<Activity("Museum", <<"1", "0", ":", "0", "0">>, <<"1", "1", ":", "0", "0">>)>>,
                  <<Activity("Castle", <<"1", "0", ":", "0", "0">>, <<"1", "1", ":", "0", "0">>)>>}}

Itineraries ==
    {<<>>} \cup UNION {[1..n -> ItineraryDays] : n \in 1..MaxDays}

\* process stores the dates, plan_trip hands the state to the tools and the
\* model calls validate_itinerary
ValidateItinerary(start_date, end_date, opening_hours, itinerary) ==
    /\ fn.name = "none"
    /\ fn' = [name |-> "validate_itinerary",
              args |-> <<itinerary, opening_hours>>,
              result |-> validate_itinerary(
                             ReactState(start_date, end_date, <<Museum(opening_hours, NoneVal)>>),
                             itinerary)]
    /\ UNCHANGED <<agent_vars, session_vars, ui_vars, api_vars, interview_vars, report_vars,
                   ex, dc>>

\* the caller takes the result; the next call starts from there
ReturnToCaller ==
    /\ fn.name # "none"
    /\ fn' = [name |-> "none", args |-> <<>>, result |-> NoneVal]
    /\ UNCHANGED <<agent_vars, session_vars, ui_vars, api_vars, interview_vars, report_vars,
                   ex, dc>>

NextHelpers ==
    \/ ReturnToCaller
    \/ \E date_range \in DateRanges, date \in CheckDates : AltAvailable(date_range, date)
    \/ \E date_range \in DateRanges, date \in CheckDates : ToolAvailable(date_range, date)
    \/ \E opening_hours \in OpeningHours, date_str \in DateTexts, time_str \in TimeTexts :
            CheckOpeningHours(opening_hours, date_str, time_str)
    \/ \E start_date \in TripStart, end_date \in TripEnd, itinerary \in Itineraries,
          opening_hours \in {NoneVal, Dict([default |-> HoursNineToFive])} :
            ValidateItinerary(start_date, end_date, opening_hours, itinerary)

SpecHelpers == Init /\ [][NextHelpers]_vars

(***************************************************************************)
(* The two whole-trip planners: the batch planner TripPlanningAltAgent     *)
(* (trip_planning_alt.py) and the tool-based planner                       *)
(* TripPlanningReactAgent (trip_planning_react.py).  An attraction of the  *)
(* catalogue is its name, category, date_range, visit_duration and the     *)
(* walking distances of its travel_info.                                   *)
(***************************************************************************)
MaxCategorySize == 11
MaxCategories == 7
MaxTripDays == 2

PlaceNames ==
    <<"A01", "A02", "A03", "A04", "A05", "A06", "A07", "A08", "A09", "A10", "A11", "A12",
      "A13">>

CategoryNames ==
    <<"museum", "park", "church", "market", "palace", "bridge", "garden", "tower", "square">>

\* visit_duration texts: "2 hours", "90 minutes", a bare number, other text
Hours(n) == [unit |-> "hour", n |-> n]
Minutes(n) == [unit |-> "minute", n |-> n]
BareNumber(n) == [unit |-> "number", n |-> n]
OtherDuration == [unit |-> "text", n |-> 0]

Place(name, category, date_range, visit_duration, travel_info) ==
    [name |-> name, category |-> category, date_range |-> date_range,
     visit_duration |-> visit_duration, travel_info |-> travel_info]

\* n attractions of one category, in catalogue order
OneCategory(n) ==
    [i \in 1..n |-> Place(PlaceNames[i], "museum", NoneVal, Hours(1), {})]

\* k attractions, each the only one of its category
OnePerCategory(k) ==
    [i \in 1..k |-> Place(PlaceNames[i], CategoryNames[i], NoneVal, Minutes(90), {})]

\* a catalogue with a seasonal event, an attraction whose date_range is not
\* recognised, a bar, and walking distances between two museums
MixedCatalogue ==
    <<Place("Louvre", "museum", NoneVal, Hours(2), {<<"Orsay", 900>>, <<"Fair", 300>>}),
      Place("Fair", "festival", List(RangeJuly1To15), BareNumber(1), {}),
      Place("Orsay", "museum", NoneVal, OtherDuration, {<<"Louvre", 900>>}),
      Place("Bar", "nightlife", NoneVal, Minutes(45), {}),
      Place("Garden", "park", List(RangeSometimeInSummer), Hours(1), {})>>

Catalogues ==
    {OneCategory(n) : n \in 0..MaxCategorySize}
    \cup {OnePerCategory(k) : k \in 1..MaxCategories}
    \cup {MixedCatalogue}

ExcludedCategories == {{}, {"nightlife"}, {"museum"}}

RECURSIVE CategoryOrder(_, _)
\* the keys of the dict of attractions by category, in insertion order
CategoryOrder(catalogue, seen) ==
    IF catalogue = <<>> THEN <<>>
    ELSE IF Head(catalogue).category \in seen
    THEN CategoryOrder(Tail(catalogue), seen)
    ELSE <<Head(catalogue).category>>
         \o CategoryOrder(Tail(catalogue), seen \cup {Head(catalogue).category})

\* the attractions that are grouped: those of a category not excluded
Grouped(catalogue, excluded_categories) ==
    SelectSeq(catalogue, LAMBDA a : a.category \notin excluded_categories)

OfCategory(catalogue, category) ==
    SelectSeq(catalogue, LAMBDA a : a.category = category)

AttractionRanking(attraction, score) == [attraction |-> attraction, score |-> score]

CategoryRankings(category, rankings) == [category |-> category, attractions |-> rankings]

Max(a, b) == IF a >= b THEN a ELSE b

\* The element of a set of one: the set is built with its variable bound to
\* a value already computed, so that a step of a loop is computed once.
The(S) == CHOOSE r \in S : TRUE

\* sorted(rankings, key=score, reverse=True): stable, highest score first.
\* The i-th ranking comes after those of a higher score and the earlier
\* ones of the same score.
ScoreRank(rankings, i) ==
    1 + Cardinality({j \in 1..Len(rankings) :
                        \/ rankings[j].score > rankings[i].score
                        \/ rankings[j].score = rankings[i].score /\ j < i})

SortByScore(rankings) ==
    [k \in 1..Len(rankings) |->
        rankings[CHOOSE i \in 1..Len(rankings) : ScoreRank(rankings, i) = k]]

\* batch planner, lines 282-303: the rankings when the reply does not parse
alt_fallback_rankings(catalogue, excluded_categories) ==
    LET grouped == Grouped(catalogue, excluded_categories)
        order == CategoryOrder(grouped, {})
    IN  [c \in 1..Len(order) |->
            CategoryRankings(order[c],
                [i \in 1..Len(OfCategory(grouped, order[c])) |->
                    AttractionRanking(OfCategory(grouped, order[c])[i],
                                      Max(10 - (i - 1), 1))])]

\* tool-based planner, lines 320-348: the rankings when the reply does not
\* parse
react_fallback_rankings(catalogue, excluded_categories) ==
    LET grouped == Grouped(catalogue, excluded_categories)
        order == CategoryOrder(grouped, {})
    IN  [c \in 1..Len(order) |->
            CategoryRankings(order[c],
                SortByScore([i \in 1..Len(OfCategory(grouped, order[c])) |->
                    AttractionRanking(OfCategory(grouped, order[c])[i], 10 - (i - 1))]))]

\* a ranking reply: text that does not parse, or the "rankings" of the JSON
\* object, each a category with named and scored attractions
Unparseable == [kind |-> "unparseable"]
RankingReply(rankings) == [kind |-> "object", rankings |-> rankings]
Ranked(name, score) == [name |-> name, score |-> score]

\* the first attraction of the catalogue with this name, 0 if there is none
Matching(catalogue, name) ==
    IF \E i \in 1..Len(catalogue) : catalogue[i].name = name
    THEN CHOOSE i \in 1..Len(catalogue) :
            /\ catalogue[i].name = name
            /\ \A j \in 1..(i - 1) : catalogue[j].name # name
    ELSE 0

RECURSIVE AltCategoryRankings(_, _)
\* lines 248-267: the named attractions that match one of the catalogue,
\* looked up in the whole of state["attractions"]
AltCategoryRankings(catalogue, named) ==
    IF named = <<>> THEN <<>>
    ELSE (IF Matching(catalogue, Head(named).name) = 0 THEN <<>>
          ELSE <<AttractionRanking(catalogue[Matching(catalogue, Head(named).name)],
                                   Head(named).score)>>)
         \o AltCategoryRankings(catalogue, Tail(named))

RECURSIVE AltParsedRankings(_, _)
\* lines 243-275: a category is kept when one of its attractions matched
AltParsedRankings(catalogue, rankings) ==
    IF rankings = <<>> THEN <<>>
    ELSE (IF AltCategoryRankings(catalogue, Head(rankings).attractions) = <<>> THEN <<>>
          ELSE <<CategoryRankings(Head(rankings).category,
                     SortByScore(AltCategoryRankings(catalogue, Head(rankings).attractions)))>>)
         \o AltParsedRankings(catalogue, Tail(rankings))

\* TripPlanningAltAgent.rank_attractions, lines 142-305
alt_rank_attractions(catalogue, excluded_categories, reply) ==
    IF reply.kind = "object" THEN AltParsedRankings(catalogue, reply.rankings)
    ELSE alt_fallback_rankings(catalogue, excluded_categories)

(***************************************************************************)
(* Dates and times of a plan.  A datetime is the number of minutes since   *)
(* 2024-01-01 00:00; a date is <<year, month, day>>.                       *)
(***************************************************************************)
DayNumber(date) ==
    DaysBeforeYear(date[1]) + DaysBeforeMonth(date[1], date[2]) + date[3] - 1

\* datetime.combine(date, datetime.min.time()) + timedelta(minutes=minutes)
Combine(date, minutes) == 1440 * DayNumber(date) + minutes

\* date + timedelta(days=1)
NextDay(date) ==
    IF date[3] < DaysInMonth(date[1], date[2]) THEN <<date[1], date[2], date[3] + 1>>
    ELSE IF date[2] < 12 THEN <<date[1], date[2] + 1, 1>>
    ELSE <<date[1] + 1, 1, 1>>

RECURSIVE AddDays(_, _)
AddDays(date, n) == IF n = 0 THEN date ELSE AddDays(NextDay(date), n - 1)

\* trip_dates, line 467
TripDates(start_date, num_days) == [i \in 1..num_days |-> AddDays(start_date, i - 1)]

Activity2(start_time, end_time, attraction, warned) ==
    [start_time |-> start_time, end_time |-> end_time, attraction |-> attraction,
     warned |-> warned]

DayPlan(date, activities) == [date |-> date, activities |-> activities]

\* activities.sort(key=lambda a: a.start_time): stable
StartRank(activities, i) ==
    1 + Cardinality({j \in 1..Len(activities) :
                        \/ activities[j].start_time < activities[i].start_time
                        \/ activities[j].start_time = activities[i].start_time /\ j < i})

SortByStart(activities) ==
    [k \in 1..Len(activities) |->
        activities[CHOOSE i \in 1..Len(activities) : StartRank(activities, i) = k]]

\* day_plans.sort(key=lambda d: d.date): stable
DateRank(day_plans, i) ==
    1 + Cardinality({j \in 1..Len(day_plans) :
                        \/ DayNumber(day_plans[j].date) < DayNumber(day_plans[i].date)
                        \/ DayNumber(day_plans[j].date) = DayNumber(day_plans[i].date) /\ j < i})

SortByDate(day_plans) ==
    [k \in 1..Len(day_plans) |->
        day_plans[CHOOSE i \in 1..Len(day_plans) : DateRank(day_plans, i) = k]]

(***************************************************************************)
(* Batch planner: fallback planning, lines 583-718                         *)
(***************************************************************************)
\* the attractions may be scheduled on this date
Available(attraction, date) ==
    alt_is_attraction_available_on_date(attraction.date_range, date)

\* lines 643-650: the first ranking of a category that is neither used nor
\* unavailable, 0 if there is none
FirstUnused(rankings, used, date) ==
    LET free == {i \in 1..Len(rankings) :
                    /\ rankings[i].attraction.name \notin used
                    /\ Available(rankings[i].attraction, date)}
    IN  IF free = {} THEN 0 ELSE CHOOSE i \in free : \A j \in free : i <= j

Picked(top, used) == [top |-> top, used |-> used]

\* lines 643-650 for one category
PickFirst(rankings, picked, date) ==
    The({IF k = 0 THEN picked
         ELSE Picked(Append(picked.top, rankings[k].attraction),
                     picked.used \cup {rankings[k].attraction.name}) :
         k \in {FirstUnused(rankings, picked.used, date)}})

RECURSIVE TopOfEachCategory(_, _, _)
\* lines 641-652: one attraction of each category, whatever their number
TopOfEachCategory(ranked_categories, picked, date) ==
    IF ranked_categories = <<>> THEN picked
    ELSE The({TopOfEachCategory(Tail(ranked_categories), p, date) :
              p \in {PickFirst(Head(ranked_categories).attractions, picked, date)}})

RECURSIVE Flatten(_)
Flatten(ranked_categories) ==
    IF ranked_categories = <<>> THEN <<>>
    ELSE Head(ranked_categories).attractions \o Flatten(Tail(ranked_categories))

\* lines 659-664 for one ranking
PickNext(ranking, picked, date) ==
    IF ranking.attraction.name \notin picked.used /\ Available(ranking.attraction, date)
    THEN Picked(Append(picked.top, ranking.attraction),
                picked.used \cup {ranking.attraction.name})
    ELSE picked

RECURSIVE FillUpToSix(_, _, _)
\* lines 656-670: further attractions in ranking order until there are six
FillUpToSix(rankings, picked, date) ==
    IF rankings = <<>> \/ Len(picked.top) >= 6 THEN picked
    ELSE The({FillUpToSix(Tail(rankings), p, date) :
              p \in {PickNext(Head(rankings), picked, date)}})

\* top_attractions[:6], line 673
FirstSix(q) == SubSeq(q, 1, IF Len(q) < 6 THEN Len(q) ELSE 6)

Keys(travel_info) == {e[1] : e \in travel_info}

Distance(travel_info, name) == (CHOOSE e \in travel_info : e[1] = name)[2]

\* lines 754-762: the first of the closest remaining attractions the current
\* one has a distance to, the first remaining one if it has none
ClosestIdx(current, remaining) ==
    LET known == {i \in 1..Len(remaining) : remaining[i].name \in Keys(current.travel_info)}
    IN  IF known = {} THEN 1
        ELSE CHOOSE i \in known :
                \A j \in known :
                    \/ Distance(current.travel_info, remaining[i].name)
                         < Distance(current.travel_info, remaining[j].name)
                    \/ /\ Distance(current.travel_info, remaining[i].name)
                            = Distance(current.travel_info, remaining[j].name)
                       /\ i <= j

Remove(q, i) == SubSeq(q, 1, i - 1) \o SubSeq(q, i + 1, Len(q))

\* lines 749-765: the index of the next attraction of the path
NextIdx(current, remaining) ==
    IF current.travel_info = {} THEN 1 ELSE ClosestIdx(current, remaining)

RECURSIVE GreedyPath(_, _)
\* the while loop of lines 745-765
GreedyPath(sorted, remaining) ==
    IF remaining = <<>> THEN sorted
    ELSE The({GreedyPath(Append(sorted, remaining[k]), Remove(remaining, k)) :
              k \in {NextIdx(sorted[Len(sorted)], remaining)}})

\* _sort_attractions_by_proximity, lines 720-767
sort_attractions_by_proximity(places) ==
    IF Len(places) <= 1 \/ \A i \in 1..Len(places) : places[i].travel_info = {}
    THEN places
    ELSE GreedyPath(<<places[1]>>, Tail(places))

\* lines 681-696: the minutes of a visit
DurationMinutes(visit_duration) ==
    CASE visit_duration.unit = "hour" -> 60 * visit_duration.n
      [] visit_duration.unit = "minute" -> visit_duration.n
      [] visit_duration.unit = "number" -> 60 * visit_duration.n
      [] OTHER -> 60

IsEvent(attraction) ==
    attraction.category \in {"festival", "event", "festivals", "events"}

\* lines 698-713: the activity of an attraction that starts at current_time
Visit(attraction, current_time) ==
    Activity2(current_time, current_time + DurationMinutes(attraction.visit_duration),
              attraction, IsEvent(attraction) /\ ~Truthy(attraction.date_range))

\* the next activity starting when the one before ends
NextSlotWithoutTravel(end_time) == end_time

\* line 716: thirty minutes for travel
NextSlot(end_time) == end_time + 30

RECURSIVE Schedule(_, _)
\* lines 679-716: one activity after the other
Schedule(places, current_time) ==
    IF places = <<>> THEN <<>>
    ELSE The({<<a>> \o Schedule(Tail(places), NextSlot(a.end_time)) :
              a \in {Visit(Head(places), current_time)}})

\* _create_fallback_activities, lines 620-718: the activities of the day and
\* the set of used names it leaves
create_fallback_activities(date, ranked_categories, used_attractions) ==
    The({[activities |-> Schedule(sort_attractions_by_proximity(FirstSix(picked.top)),
                                  Combine(date, 9 * 60)),
          used_attractions |-> picked.used] :
         picked \in {The({IF Len(first.top) < 6
                          THEN FillUpToSix(Flatten(ranked_categories), first, date)
                          ELSE first :
                          first \in {TopOfEachCategory(ranked_categories,
                                                       Picked(<<>>, used_attractions),
                                                       date)}})}})

Built(day_plans, used_attractions, log) ==
    [day_plans |-> day_plans, used_attractions |-> used_attractions, log |-> log]

\* lines 589-600 for one date
FallbackDay(date, ranked_categories, built) ==
    The({Built(IF day.activities # <<>>
               THEN Append(built.day_plans, DayPlan(date, day.activities))
               ELSE built.day_plans,
               day.used_attractions,
               Append(built.log,
                      [date |-> date,
                       added |-> day.used_attractions \ built.used_attractions,
                       activities |-> day.activities])) :
         day \in {create_fallback_activities(date, ranked_categories,
                                             built.used_attractions)}})

RECURSIVE FallbackDays(_, _, _)
\* lines 587-600: the days of the trip in order, a day plan for each day that
\* got activities; log keeps, for each date, the names the day added to
\* used_attractions and the activities it returned
FallbackDays(trip_dates, ranked_categories, built) ==
    IF trip_dates = <<>> THEN built
    ELSE The({FallbackDays(Tail(trip_dates), ranked_categories, b) :
              b \in {FallbackDay(Head(trip_dates), ranked_categories, built)}})

\* lines 603-613
Placeholder(first_date) ==
    DayPlan(first_date,
            <<Activity2(Combine(first_date, 9 * 60), Combine(first_date, 10 * 60),
                        NoneVal, FALSE)>>)

\* the except branch of plan_trip, lines 583-616
alt_fallback_plan(trip_dates, ranked_categories) ==
    The({[built EXCEPT !.day_plans =
             IF built.day_plans = <<>> /\ trip_dates # <<>>
             THEN <<Placeholder(trip_dates[1])>>
             ELSE built.day_plans] :
         built \in {FallbackDays(trip_dates, ranked_categories, Built(<<>>, {}, <<>>))}})

(***************************************************************************)
(* Batch planner: the plan the model returned, lines 472-576               *)
(***************************************************************************)
\* the reply holds no JSON object, JSON that does not parse, or day plans
NoJson == [kind |-> "no_json"]
InvalidJson == [kind |-> "invalid_json"]
PlanReply(day_plans) == [kind |-> "object", day_plans |-> day_plans]
PlannedDay(date, activities) == [date |-> date, activities |-> activities]
Planned(attraction_name, start_time, end_time) ==
    [attraction_name |-> attraction_name, start_time |-> start_time, end_time |-> end_time]

\* datetime.strptime(date_str, "%Y-%m-%d") succeeds
IsIsoDate(date_str) ==
    /\ date_str.t = "datetext"
    /\ date_str.fmt = "dash"
    /\ date_str.b \in 1..12
    /\ date_str.c \in 1..DaysInMonth(date_str.a, date_str.b)

\* the text ends with AM or PM, in either case
HasMeridiem(time_str) ==
    /\ Len(time_str) >= 2
    /\ Upper(SubSeq(time_str, Len(time_str) - 1, Len(time_str))) \in {<<"A", "M">>, <<"P", "M">>}

\* "%I:%M %p" and "%I:%M%p": the minutes since midnight, or -1
ParseTime12(time_str) ==
    IF ~HasMeridiem(time_str) THEN -1
    ELSE LET parts == Split(Strip(SubSeq(time_str, 1, Len(time_str) - 2)), ":")
         IN  IF /\ Len(parts) = 2 /\ IsNumber(parts[1]) /\ IsNumber(parts[2])
                /\ IntOf(parts[1]) \in 1..12 /\ IntOf(parts[2]) <= 59
             THEN 60 * ((IntOf(parts[1]) % 12)
                        + (IF Upper(SubSeq(time_str, Len(time_str) - 1, Len(time_str)))
                                = <<"P", "M">> THEN 12 ELSE 0))
                  + IntOf(parts[2])
             ELSE -1

\* _parse_time_from_json, lines 799-839, the datetime or -1 for None.  A
\* text that no format parses is searched for digits, a colon and digits,
\* and these hours and minutes are added to the date whatever their size;
\* the texts explored hold them alone.
parse_time_from_json(time_str, date) ==
    IF time_str = <<>> THEN -1
    ELSE IF ParseTime(time_str) >= 0 THEN Combine(date, ParseTime(time_str))
    ELSE IF ParseTime12(time_str) >= 0 THEN Combine(date, ParseTime12(time_str))
    ELSE LET parts == Split(time_str, ":")
         IN  IF Len(parts) = 2 /\ IsNumber(parts[1]) /\ IsNumber(parts[2])
             THEN Combine(date, 0) + 60 * IntOf(parts[1]) + IntOf(parts[2])
             ELSE -1

\* attraction_map, lines 502-505: the last ranking of a name
InMap(flat, name) == \E i \in 1..Len(flat) : flat[i].attraction.name = name

Mapped(flat, name) ==
    flat[CHOOSE i \in 1..Len(flat) :
            /\ flat[i].attraction.name = name
            /\ \A j \in (i + 1)..Len(flat) : flat[j].attraction.name # name].attraction

\* lines 521-562 for one activity of the reply
PlannedActivity(data, date, flat, picked) ==
    IF InMap(flat, data.attraction_name)
       /\ ~Available(Mapped(flat, data.attraction_name), date)
    THEN picked
    ELSE The({Picked(IF start_time = -1 \/ end_time = -1 THEN picked.top
                     ELSE Append(picked.top,
                                 Activity2(start_time, end_time, attraction,
                                           /\ attraction # NoneVal
                                           /\ IsEvent(attraction)
                                           /\ ~Truthy(attraction.date_range))),
                     IF attraction # NoneVal THEN picked.used \cup {data.attraction_name}
                     ELSE picked.used) :
              start_time \in {parse_time_from_json(data.start_time, date)},
              end_time \in {parse_time_from_json(data.end_time, date)},
              attraction \in {IF InMap(flat, data.attraction_name)
                              THEN Mapped(flat, data.attraction_name) ELSE NoneVal}})

RECURSIVE PlannedActivities(_, _, _, _)
\* lines 519-562: the activities of one day of the reply, in the order of
\* the reply, and the names added to used_attractions
PlannedActivities(activity_datas, date, flat, picked) ==
    IF activity_datas = <<>> THEN picked
    ELSE The({PlannedActivities(Tail(activity_datas), date, flat, p) :
              p \in {PlannedActivity(Head(activity_datas), date, flat, picked)}})

\* lines 508-516: the date of a day of the reply
PlannedDate(date_str, day_plans, start_date) ==
    IF IsIsoDate(date_str) THEN <<date_str.a, date_str.b, date_str.c>>
    ELSE IF day_plans # <<>> THEN NextDay(day_plans[Len(day_plans)].date)
    ELSE start_date

\* lines 508-569 for one day of the reply
PlannedDayPlan(day_data, start_date, flat, built) ==
    The({Built(Append(built.day_plans, DayPlan(date, SortByStart(day.top))),
               day.used, built.log) :
         day \in {The({PlannedActivities(day_data.activities, date, flat,
                                         Picked(<<>>, built.used_attractions)) :
                       date \in {PlannedDate(day_data.date, built.day_plans, start_date)}})},
         date \in {PlannedDate(day_data.date, built.day_plans, start_date)}})

RECURSIVE PlannedDays(_, _, _, _)
\* the loop of lines 507-569
PlannedDays(day_datas, start_date, flat, built) ==
    IF day_datas = <<>> THEN built
    ELSE The({PlannedDays(Tail(day_datas), start_date, flat, b) :
              b \in {PlannedDayPlan(Head(day_datas), start_date, flat, built)}})

\* plan_trip, lines 307-618: the day plans of the state.  A reply without a
\* JSON object is read as {"day_plans": []}; JSON that does not parse raises
\* and the fallback plans the days.
alt_plan_trip(start_date, num_days, ranked_categories, reply) ==
    CASE reply.kind = "no_json" -> Built(<<>>, {}, <<>>)
      [] reply.kind = "invalid_json" ->
            alt_fallback_plan(TripDates(start_date, num_days), ranked_categories)
      [] reply.kind = "object" ->
            The({[built EXCEPT !.day_plans = SortByDate(built.day_plans)] :
                 built \in {PlannedDays(reply.day_plans, start_date,
                                        Flatten(ranked_categories),
                                        Built(<<>>, {}, <<>>))}})

\* create_trip, lines 769-797
Trip(day_plans) == [t |-> "trip", days |-> day_plans]

(***************************************************************************)
(* Tool-based planner (trip_planning_react.py)                             *)
(***************************************************************************)
\* lines 280-284: the first attraction of this name and category, 0 if none
MatchingInCategory(catalogue, name, category) ==
    IF \E i \in 1..Len(catalogue) : catalogue[i].name = name /\ catalogue[i].category = category
    THEN CHOOSE i \in 1..Len(catalogue) :
            /\ catalogue[i].name = name /\ catalogue[i].category = category
            /\ \A j \in 1..(i - 1) :
                  ~(catalogue[j].name = name /\ catalogue[j].category = category)
    ELSE 0

RECURSIVE ReactCategoryRankings(_, _, _)
\* lines 274-293
ReactCategoryRankings(catalogue, category, named) ==
    IF named = <<>> THEN <<>>
    ELSE (IF MatchingInCategory(catalogue, Head(named).name, category) = 0 THEN <<>>
          ELSE <<AttractionRanking(
                     catalogue[MatchingInCategory(catalogue, Head(named).name, category)],
                     Head(named).score)>>)
         \o ReactCategoryRankings(catalogue, category, Tail(named))

\* lines 270-303: every category of the reply is kept
ReactParsedRankings(catalogue, rankings) ==
    [c \in 1..Len(rankings) |->
        CategoryRankings(rankings[c].category,
            SortByScore(ReactCategoryRankings(catalogue, rankings[c].category,
                                              rankings[c].attractions)))]

\* TripPlanningReactAgent.rank_attractions, lines 137-348
react_rank_attractions(catalogue, excluded_categories, reply) ==
    IF reply.kind = "object" THEN ReactParsedRankings(catalogue, reply.rankings)
    ELSE react_fallback_rankings(catalogue, excluded_categories)

\* what calling the coroutine function _create_fallback_plan returns
Coroutine == [t |-> "coroutine"]
Plan(days) == [t |-> "plan", days |-> days]
Raises(error) == [t |-> "raised", error |-> error]

\* plan_trip, lines 566-594: state["plan"].  When the final message does
\* not parse, line 589 calls the async method _create_fallback_plan without
\* awaiting it, so the plan is the coroutine object and the method's body
\* never runs.
react_plan_trip(reply) ==
    IF reply.kind = "object" THEN Plan(reply.day_plans) ELSE Coroutine

\* lines 762-763 and 774-778 raise ValueError for a date or a time that does
\* not parse
ReactDayParses(day_data) ==
    /\ IsIsoDate(day_data.date)
    /\ \A i \in 1..Len(day_data.activities) :
          /\ ParseTime(day_data.activities[i].start_time) >= 0
          /\ ParseTime(day_data.activities[i].end_time) >= 0

\* lines 780-797
ReactActivity(activity_data, date, catalogue) ==
    Activity2(Combine(date, ParseTime(activity_data.start_time)),
              Combine(date, ParseTime(activity_data.end_time)),
              IF Matching(catalogue, activity_data.attraction_name) = 0 THEN NoneVal
              ELSE catalogue[Matching(catalogue, activity_data.attraction_name)],
              FALSE)

\* create_trip, lines 744-829: the days and the activities in the order of
\* the plan; subscripting the coroutine raises TypeError
react_create_trip(plan, catalogue) ==
    IF plan.t = "coroutine" THEN Raises("TypeError")
    ELSE IF \E d \in 1..Len(plan.days) : ~ReactDayParses(plan.days[d])
    THEN Raises("ValueError")
    ELSE Trip([d \in 1..Len(plan.days) |->
                 DayPlan(<<plan.days[d].date.a, plan.days[d].date.b, plan.days[d].date.c>>,
                         [i \in 1..Len(plan.days[d].activities) |->
                             ReactActivity(plan.days[d].activities[i],
                                           <<plan.days[d].date.a, plan.days[d].date.b,
                                             plan.days[d].date.c>>,
                                           catalogue)])])

(***************************************************************************)
(* check_schedule_gaps, tools.py lines 403-466                             *)
(***************************************************************************)
\* the code points of the characters of a time
CharCode(ch) ==
    IF ch = ":" THEN 58
    ELSE 48 + DigitValue(ch)

RECURSIVE StrLessEq(_, _)
\* a <= b for Python strings: by code point, a prefix first
StrLessEq(a, b) ==
    IF a = <<>> THEN TRUE
    ELSE IF b = <<>> THEN FALSE
    ELSE IF CharCode(Head(a)) # CharCode(Head(b)) THEN CharCode(Head(a)) < CharCode(Head(b))
    ELSE StrLessEq(Tail(a), Tail(b))

\* sorted(activities, key=lambda x: x["start_time"]): the keys are strings
StartTextRank(activities, i) ==
    1 + Cardinality({j \in 1..Len(activities) :
                        \/ ~StrLessEq(activities[i].start_time, activities[j].start_time)
                        \/ activities[j].start_time = activities[i].start_time /\ j < i})

SortByStartText(activities) ==
    [k \in 1..Len(activities) |->
        activities[CHOOSE i \in 1..Len(activities) : StartTextRank(activities, i) = k]]

\* hour, minute = map(int, text.split(":"))
ClockParses(text) ==
    /\ Len(Split(text, ":")) = 2
    /\ IsNumber(Split(text, ":")[1])
    /\ IsNumber(Split(text, ":")[2])

ClockHour(text) == IntOf(Split(text, ":")[1])

\* sixty times the decimal hours
ClockMinutes(text) == 60 * IntOf(Split(text, ":")[1]) + IntOf(Split(text, ":")[2])

\* lines 437-451: the gap after the i-th of the sorted activities is flagged
Flagged(sorted_activities, i) ==
    /\ ClockMinutes(sorted_activities[i + 1].start_time)
         - ClockMinutes(sorted_activities[i].end_time) > 60
    /\ 9 <= ClockHour(sorted_activities[i].end_time)
    /\ ClockHour(sorted_activities[i].end_time) < 19

\* the gap in tenths of an hour: round(gap_hours, 1) for the minutes
\* explored, which are multiples of six
Gap(sorted_activities, i) ==
    [after_activity |-> sorted_activities[i].attraction_name,
     before_activity |-> sorted_activities[i + 1].attraction_name,
     gap_tenths |-> (ClockMinutes(sorted_activities[i + 1].start_time)
                       - ClockMinutes(sorted_activities[i].end_time)) \div 6,
     end_time |-> sorted_activities[i].end_time,
     start_time |-> sorted_activities[i + 1].start_time]

RECURSIVE Gaps(_, _)
Gaps(sorted_activities, i) ==
    IF i >= Len(sorted_activities) THEN <<>>
    ELSE (IF Flagged(sorted_activities, i) THEN <<Gap(sorted_activities, i)>> ELSE <<>>)
         \o Gaps(sorted_activities, i + 1)

check_schedule_gaps(activities) ==
    IF activities = <<>> THEN [has_gaps |-> FALSE, gaps |-> <<>>]
    ELSE IF \E i \in 1..Len(activities) :
               ~ClockParses(activities[i].start_time) \/ ~ClockParses(activities[i].end_time)
    THEN Raises("ValueError")
    ELSE The({[has_gaps |-> gaps # <<>>, gaps |-> gaps] :
              gaps \in {Gaps(SortByStartText(activities), 1)}})

(***************************************************************************)
(* Calls of the planners.  The replies of the language model are inputs:   *)
(* a ranking that names every attraction of the catalogue or only those    *)
(* of the categories kept, a plan whose days and activities come in any    *)
(* order, with times in several notations.                                 *)
(***************************************************************************)
\* 2025-07-15 is inside "July 1-15, 2025"; 2025-12-31 is followed by a day
\* of another year
TripStarts == {<<2025, 7, 15>>, <<2025, 12, 31>>}

T0900 == <<"0", "9", ":", "0", "0">>
T1100 == <<"1", "1", ":", "0", "0">>
T1300 == <<"1", "3", ":", "0", "0">>
T1400 == <<"1", "4", ":", "0", "0">>
T1600 == <<"1", "6", ":", "0", "0">>
T900 == <<"9", ":", "0", "0">>
T1000 == <<"1", "0", ":", "0", "0">>
T2PM == <<"2", ":", "0", "0", " ", "P", "M">>
T4pm == <<"4", ":", "0", "0", "p", "m">>
T2500 == <<"2", "5", ":", "0", "0">>
TNoon == <<"n", "o", "o", "n">>

\* a ranking reply that scores the attractions of each category upwards
RankingOf(catalogue) ==
    RankingReply([c \in 1..Len(CategoryOrder(catalogue, {})) |->
        [category |-> CategoryOrder(catalogue, {})[c],
         attractions |->
            [i \in 1..Len(OfCategory(catalogue, CategoryOrder(catalogue, {})[c])) |->
                Ranked(OfCategory(catalogue, CategoryOrder(catalogue, {})[c])[i].name, i)]]])

RankingReplies(catalogue, excluded_categories) ==
    {Unparseable, RankingOf(catalogue), RankingOf(Grouped(catalogue, excluded_categories))}

\* the name of the i-th attraction, a name of no attraction beyond the last
NameAt(catalogue, i) == IF i <= Len(catalogue) THEN catalogue[i].name ELSE "Nowhere"

\* the second day first, the afternoon before the morning
ReversedPlan(catalogue, start_date) ==
    PlanReply(<<PlannedDay(strftime_iso(NextDay(start_date)),
                           <<Planned(NameAt(catalogue, 4), T1400, T1600),
                             Planned(NameAt(catalogue, 3), T0900, T1100)>>),
                PlannedDay(strftime_iso(start_date),
                           <<Planned(NameAt(catalogue, 2), T1400, T1600),
                             Planned(NameAt(catalogue, 1), T0900, T1100)>>)>>)

\* the days and the activities in order
OrderedPlan(catalogue, start_date) ==
    PlanReply(<<PlannedDay(strftime_iso(start_date),
                           <<Planned(NameAt(catalogue, 1), T0900, T1100),
                             Planned(NameAt(catalogue, 2), T1400, T1600)>>),
                PlannedDay(strftime_iso(NextDay(start_date)),
                           <<Planned(NameAt(catalogue, 3), T0900, T1100)>>)>>)

\* a date that is no date, times in other notations and no time
LoosePlan(catalogue, start_date) ==
    PlanReply(<<PlannedDay(DateNextWeek,
                           <<Planned(NameAt(catalogue, 1), T2PM, T4pm),
                             Planned(NameAt(catalogue, 2), T0900, T2500),
                             Planned(NameAt(catalogue, 3), TNoon, T1100),
                             Planned(NameAt(catalogue, 4), <<>>, T1100)>>),
                PlannedDay(DateNextWeek, <<>>)>>)

PlanReplies(catalogue, start_date) ==
    {NoJson, InvalidJson, ReversedPlan(catalogue, start_date),
     OrderedPlan(catalogue, start_date), LoosePlan(catalogue, start_date)}

\* TripPlanningAltAgent.process, lines 90-140: rank_attractions, plan_trip,
\* create_trip
AltProcess(catalogue, excluded_categories, start_date, num_days, ranking, plan) ==
    /\ fn.name = "none"
    /\ fn' = [name |-> "TripPlanningAltAgent.process",
              args |-> <<catalogue, excluded_categories, start_date, num_days, ranking, plan>>,
              result |->
                 The({The({[t |-> "planned",
                            ranked_categories |-> ranked_categories,
                            log |-> built.log,
                            trip |-> Trip(built.day_plans)] :
                           built \in {alt_plan_trip(start_date, num_days,
                                                    ranked_categories, plan)}}) :
                      ranked_categories \in {alt_rank_attractions(
                                                 catalogue, excluded_categories, ranking)}})]
    /\ UNCHANGED <<agent_vars, session_vars, ui_vars, api_vars, interview_vars, report_vars,
                   ex, dc>>

\* TripPlanningReactAgent.process, lines 77-135: rank_attractions, plan_trip,
\* create_trip; the trip, or the exception create_trip raises
ReactProcess(catalogue, excluded_categories, start_date, num_days, ranking, plan) ==
    /\ fn.name = "none"
    /\ fn' = [name |-> "TripPlanningReactAgent.process",
              args |-> <<catalogue, excluded_categories, start_date, num_days, ranking, plan>>,
              result |->
                 [t |-> "planned",
                  ranked_categories |-> react_rank_attractions(catalogue, excluded_categories,
                                                               ranking),
                  log |-> <<>>,
                  trip |-> react_create_trip(react_plan_trip(plan), catalogue)]]
    /\ UNCHANGED <<agent_vars, session_vars, ui_vars, api_vars, interview_vars, report_vars,
                   ex, dc>>

\* the activities of a day plan handed to check_schedule_gaps
GapTimes == {T900, T1000, T1100, T1300, T1400, T1600}

GapActivities ==
    {[attraction_name |-> n, start_time |-> s, end_time |-> e] :
        n \in {"Louvre"}, s \in GapTimes, e \in GapTimes}

GapDays ==
    {<<>>}
    \cup {<<a>> : a \in {x \in GapActivities : x.start_time = T900 /\ x.end_time = T1000}}
    \cup {<<a, b>> : a \in {x \in GapActivities :
                               ClockMinutes(x.start_time) < ClockMinutes(x.end_time)},
                     b \in {x \in GapActivities :
                               ClockMinutes(x.start_time) < ClockMinutes(x.end_time)}}

\* a call of the tool check_schedule_gaps
CheckScheduleGaps(activities) ==
    /\ fn.name = "none"
    /\ fn' = [name |-> "check_schedule_gaps",
              args |-> <<activities>>,
              result |-> check_schedule_gaps(activities)]
    /\ UNCHANGED <<agent_vars, session_vars, ui_vars, api_vars, interview_vars, report_vars,
                   ex, dc>>

NextPlanners ==
    \/ ReturnToCaller
    \/ \E catalogue \in Catalogues, excluded_categories \in ExcludedCategories,
          start_date \in TripStarts, num_days \in 1..MaxTripDays :
          \E ranking \in RankingReplies(catalogue, excluded_categories),
             plan \in PlanReplies(catalogue, start_date) :
                AltProcess(catalogue, excluded_categories, start_date, num_days, ranking, plan)
    \/ \E catalogue \in Catalogues, excluded_categories \in ExcludedCategories,
          start_date \in TripStarts, num_days \in 1..MaxTripDays :
          \E ranking \in RankingReplies(catalogue, excluded_categories),
             plan \in PlanReplies(catalogue, start_date) :
                ReactProcess(catalogue, excluded_categories, start_date, num_days, ranking, plan)
    \/ \E activities \in GapDays : CheckScheduleGaps(activities)

SpecPlanners == Init /\ [][NextPlanners]_vars

(***************************************************************************)
(* Properties of the User Interface Agent (checked under SpecAgent)        *)
(***************************************************************************)
HasField(preferences, k) == Truthy(preferences[k])

HasRequired(preferences) ==
    /\ HasField(preferences, "destination")
    /\ HasField(preferences, "start_date")
    /\ HasField(preferences, "end_date")
    /\ HasField(preferences, "interests")

\* C1: after every process turn the state follows from what the returned
\* preferences still miss: no destination => COLLECTING_DESTINATION; else a
\* missing start or end date => COLLECTING_DATES; else no interests =>
\* COLLECTING_INTERESTS; whatever the state before the turn and whatever
\* `confirmed` is.
C1_StateFollowsMissingInfo ==
    conversation_history # <<>> =>
        LET p == user_preferences
            st == conversation_context.state
        IN  /\ ~HasField(p, "destination") => st = COLLECTING_DESTINATION
            /\ (HasField(p, "destination")
                /\ (~HasField(p, "start_date") \/ ~HasField(p, "end_date")))
               => st = COLLECTING_DATES
            /\ (HasField(p, "destination") /\ HasField(p, "start_date")
                /\ HasField(p, "end_date") /\ ~HasField(p, "interests"))
               => st = COLLECTING_INTERESTS

\* a confirmed conversation whose caller then passed preferences without
\* dates: the state went back to COLLECTING_DATES with `confirmed` still set
C1_Witness ==
    /\ conversation_context.confirmed
    /\ conversation_context.state = COLLECTING_DATES
    /\ HasField(user_preferences, "destination")

\* C2: with destination, dates and interests set, a missing budget ends the
\* turn in COLLECTING_BUDGET and (budget set) a missing accommodation type in
\* COLLECTING_ACCOMMODATION; CONFIRMATION is entered only when none of
\* destination, dates, interests, budget and accommodation is missing.
C2_BudgetBeforeConfirmation ==
    conversation_history # <<>> =>
        LET p == user_preferences
            st == conversation_context.state
        IN  /\ (HasRequired(p) /\ ~HasField(p, "budget_range")) => st = COLLECTING_BUDGET
            /\ (HasRequired(p) /\ HasField(p, "budget_range")
                /\ ~HasField(p, "accommodation_type")) => st = COLLECTING_ACCOMMODATION
            /\ st = CONFIRMATION =>
                    /\ HasRequired(p)
                    /\ HasField(p, "budget_range")
                    /\ HasField(p, "accommodation_type")

\* C3: a turn that starts in CONFIRMATION with an affirmative message, the
\* caller passing back preferences that have destination, dates and
\* interests, ends with `confirmed` set and the state READY.
C3_AffirmativeReachesReady ==
    [][(/\ conversation_context.state = CONFIRMATION
        /\ last_call'.input_text = TextYes
        /\ last_call'.passed_back
        /\ HasRequired(user_preferences))
       => (conversation_context'.confirmed /\ conversation_context'.state = READY)]_vars

\* READY after "YES please", early enough that the secondary rule of
\* _generate_response cannot have set `confirmed` on an earlier turn
C3_Witness ==
    /\ conversation_context.state = READY
    /\ conversation_context.confirmed
    /\ last_call.input_text = TextYes
    /\ last_call.passed_back
    /\ Len(conversation_history) <= 6

\* C4: a turn on which the state first becomes CONFIRMATION never sets
\* `confirmed`: without an affirmative message `confirmed` is set only on a
\* turn that already started in CONFIRMATION.
C4_FirstConfirmationTurnUnconfirmed ==
    [][(/\ ~conversation_context.confirmed
        /\ conversation_context.state # CONFIRMATION
        /\ conversation_context'.state = CONFIRMATION)
       => ~conversation_context'.confirmed]_vars

\* C5: when the caller passes back the preferences of the previous turn, a
\* field that was non-empty stays non-empty, and a turn whose reply was not
\* parsed (or that asked for none) leaves every field as it was.
C5_PreferencesAccumulate ==
    [][last_call'.passed_back =>
        LET before == OrDefaultPreferences(user_preferences) IN
        /\ \A k \in PreferenceFields :
              HasField(before, k) => HasField(user_preferences', k)
        /\ ~last_call'.parsed => user_preferences' = before]_vars

\* a non-empty message whose reply failed to parse, on preferences that
\* already held a destination
C5_Witness ==
    /\ last_call.passed_back
    /\ ~last_call.parsed
    /\ last_call.input_text = TextNo
    /\ Len(conversation_history) >= 4
    /\ HasField(user_preferences, "destination")

(***************************************************************************)
(* Properties of the pipeline start and of the two pipelines               *)
(***************************************************************************)
\* C6: the pipeline is started only for a conversation that has the
\* destination and both dates AND has been confirmed (state READY); here for
\* the HTTP API: a chat request that schedules the background pipeline was
\* answered by an agent in state READY with `confirmed` set.
C6_PipelineStartsOnlyWhenReady ==
    (api_last.kind = "chat" /\ api_last.scheduled)
        => (/\ HasTripEssentials(user_preferences)
            /\ conversation_context.state = READY
            /\ conversation_context.confirmed)

\* C7: a background pipeline whose agent calls all returned has stored a
\* non-null trip_plan in the session by the time it ends.
C7_BackgroundStoresTripPlan ==
    \A i \in 1..Len(background_tasks) :
        (background_tasks[i].pc \in {"done", "failed"} /\ background_tasks[i].agents_returned)
            => trip_plan # NoneVal

\* position of a processing status on the chain
\* null, destination_report, attraction_extraction, trip_planning, completed
StatusRank(status) ==
    CASE status = NoneVal -> 0
      [] status = STATUS_DESTINATION_REPORT -> 1
      [] status = STATUS_ATTRACTION_EXTRACTION -> 2
      [] status = STATUS_TRIP_PLANNING -> 3
      [] status = STATUS_COMPLETED -> 4

\* C8: processing_status only moves forward along the chain, a run of the
\* script runs at most one stage, extraction is pending only with a stored
\* report, planning only with stored attractions, and "completed" implies a
\* stored trip plan.
C8_StatusOnlyMovesForward ==
    /\ [][/\ StatusRank(processing_status') >= StatusRank(processing_status)
          /\ StatusRank(processing_status') <=
                (IF processing_status = NoneVal THEN 2
                 ELSE StatusRank(processing_status) + 1)]_vars
    /\ [](StatusRank(processing_status) >= 2 => destination_report # NoneVal)
    /\ [](StatusRank(processing_status) >= 3 => attractions # NoneVal)
    /\ [](processing_status = STATUS_COMPLETED => trip_plan # NoneVal)

\* C9: once the planning stage has run and its agent call returned, the
\* status is "completed", also when an activity of the plan has no attraction.
C9_PlanningStageCompletes ==
    (ui_last.stage = "trip_planning" /\ ui_last.agent_returned)
        => processing_status = STATUS_COMPLETED

(***************************************************************************)
(* Properties of the analyst interview                                     *)
(***************************************************************************)
Count(q, x) == Cardinality({i \in 1..Len(q) : q[i] = x})

Searches == {"search_web", "search_wikipedia"}

\* the nodes finished in rounds of ask_question, both searches in either
\* order, answer_question, and save_interview, write_section only after them
InterviewOrder ==
    \A i \in 1..Len(iv_log) :
        CASE iv_log[i] = "ask_question" ->
                i = 1 \/ iv_log[i - 1] = "answer_question"
          [] iv_log[i] \in Searches ->
                \/ i > 1 /\ iv_log[i - 1] = "ask_question"
                \/ i > 2 /\ iv_log[i - 2] = "ask_question"
                         /\ {iv_log[i - 1], iv_log[i]} = Searches
          [] iv_log[i] = "answer_question" ->
                i > 3 /\ iv_log[i - 3] = "ask_question"
                      /\ {iv_log[i - 2], iv_log[i - 1]} = Searches
          [] iv_log[i] = "save_interview" ->
                i > 1 /\ iv_log[i - 1] = "answer_question"
          [] iv_log[i] = "write_section" ->
                i > 1 /\ iv_log[i - 1] = "save_interview" /\ i = Len(iv_log)

InterviewBounded ==
    /\ NumResponses(iv_messages, "expert") <= 3
    /\ Count(iv_log, "answer_question") <= 3
    /\ Len(iv_messages) <= 6
    /\ InterviewOrder
    \* the answer starts only with the context of both searches of its round
    /\ "answer_question" \in iv_running
          => /\ Len(iv_context) = 2 * Count(iv_log, "ask_question")
             /\ iv_context[Len(iv_context) - 1].source = "web"
             /\ iv_context[Len(iv_context)].source = "wikipedia"
    /\ Count(iv_log, "save_interview") <= 1
    /\ Count(iv_log, "write_section") <= 1

InterviewDone ==
    /\ iv_running = {}
    /\ Count(iv_log, "save_interview") = 1
    /\ Count(iv_log, "write_section") = 1
    /\ iv_interview # NoneVal
    /\ Len(iv_sections) = 1

\* C10: every interview terminates whatever the model replies: at most 3
\* expert answers and 6 messages, every round is ask_question, then both
\* searches, then answer_question (which starts only once both searches of
\* the round have appended their context), and after the last round
\* save_interview and then write_section run exactly once each.
C10_InterviewTerminates ==
    /\ []InterviewBounded
    /\ [](iv_running = {} => InterviewDone)
    /\ <>InterviewDone

\* an interview that ended after three full rounds
C10_Witness ==
    /\ InterviewDone
    /\ Count(iv_log, "answer_question") = 3
    /\ Len(iv_messages) = 6
    /\ Len(iv_context) = 6
    /\ iv_messages[5].thanks

(***************************************************************************)
(* Properties of the report graph                                          *)
(***************************************************************************)
AnalystsOf(sections) == {sections[i].analyst : i \in 1..Len(sections)}

SixSections(sections) == Len(sections) = 6 /\ AnalystsOf(sections) = 1..6

\* C11: exactly six interviews are started, one per analyst; under every
\* interleaving the three writers start only once each of the six
\* interviews has contributed exactly one section; finalize_report runs once,
\* only after the three writers, and the report holds the six sections.
C11_FanOutFanIn ==
    /\ rp_runs["conduct_interview"] \in {0, 6}
    /\ rp_runs["conduct_interview"] = 6 =>
          \/ {t.analyst : t \in {u \in rp_running : u.node = "conduct_interview"}}
                \cup {w.task.analyst : w \in {x \in rp_writes : x.task.node = "conduct_interview"}}
                = 1..6
          \/ SixSections(rp_state.sections)
    /\ (\E t \in rp_running : t.node \in Writers) => SixSections(rp_state.sections)
    /\ (\A n \in Writers : rp_runs[n] > 0) => SixSections(rp_state.sections)
    /\ \A n \in Writers \cup {"finalize_report"} : rp_runs[n] <= 1
    /\ rp_runs["finalize_report"] = 1 =>
          /\ rp_state.introduction # NoneVal
          /\ rp_state.content # NoneVal
          /\ rp_state.conclusion # NoneVal
          /\ \A n \in Writers : Task(n, 0) \notin rp_running
    /\ rp_state.report # NoneVal =>
          /\ rp_state.report.content # NoneVal
          /\ SixSections(rp_state.report.content.items)
    /\ rp_running = {} => rp_state.report # NoneVal

\* the report graph has ended with its report assembled
C11_Witness ==
    /\ rp_running = {}
    /\ rp_state.report # NoneVal
    /\ SixSections(rp_state.report.content.items)
    /\ \A i \in 1..6 : rp_rounds[i] = 3

(***************************************************************************)
(* Properties of the attraction extraction                                 *)
(***************************************************************************)
ExEnded == ex.pc \in {"returned", "raised"}

\* the extraction reply was an array of well-shaped candidates
WellShapedCandidates ==
    /\ ex.extract_reply.json = "array"
    /\ \A i \in 1..Len(ex.extract_reply.items) :
          /\ ex.extract_reply.items[i].shape = "object"
          /\ ex.extract_reply.items[i].extracted_from

\* every enrichment reply so far either parsed into a valid attraction or
\* failed to parse
ParsesOrFails ==
    \A i \in 1..Len(ex.enrich_replies) :
        ex.enrich_replies[i].json = "invalid" \/ AttractionValidates(ex.enrich_replies[i])

\* C12: for a list of n candidates (n >= 0) whose enrichment replies parse
\* or fail to parse, the graph ends having run enrich n times, the cursor
\* counting the runs, and process returns n attractions named after the
\* candidates in order, the minimal attraction where the reply did not parse.
C12_EnrichesEveryCandidate ==
    /\ (ex.pc # "idle" /\ ParsesOrFails) => ex.current_attraction_index = ex.enrich_runs
    /\ (ExEnded /\ WellShapedCandidates /\ ParsesOrFails) =>
          /\ ex.pc = "returned"
          /\ ex.enrich_runs = Len(ex.extract_reply.items)
          /\ Len(ex.result) = Len(ex.extract_reply.items)
          /\ \A i \in 1..Len(ex.result) :
                /\ ex.result[i].name = ex.extract_reply.items[i].name
                /\ ex.enrich_replies[i].json = "invalid" =>
                      /\ ex.result[i].visit_duration = "60"
                      /\ \A d \in Weekdays : ex.result[i].opening_hours[d] = "Missing"

\* C13: a malformed reply never makes process raise: an extraction reply
\* that is not an array of well-shaped candidates gives an empty candidate
\* list, a wrongly typed enrichment value gives the minimal attraction.
C13_MalformedReplyNeverRaises ==
    /\ ex.pc # "raised"
    /\ (ex.pc # "idle" /\ ~WellShapedCandidates) => ex.extracted_attractions = <<>>
    /\ ex.pc = "returned" =>
          \A i \in 1..Len(ex.result) :
              ~AttractionValidates(ex.enrich_replies[i]) =>
                  ex.result[i].visit_duration = "60"

(***************************************************************************)
(* Properties of the distance calculator                                   *)
(***************************************************************************)
TravelKeys(id) == DOMAIN dc.heap[id].travel_info.f

\* C14: in the returned list an attraction with resolved coordinates has as
\* keys of travel_info exactly the names of the other resolved attractions
\* (never its own name); an unresolved attraction has an empty travel_info
\* and its name is a key of no other attraction's travel_info.
C14_TravelInfoKeys ==
    dc.pc = "returned" =>
        \A i \in 1..Len(dc.names) :
            IF dc.resolved[i]
            THEN TravelKeys(dc.result[i]) =
                    {dc.names[j] : j \in {k \in 1..Len(dc.names) : k # i /\ dc.resolved[k]}}
                        \ {dc.names[i]}
            ELSE /\ TravelKeys(dc.result[i]) = {}
                 /\ \A j \in 1..Len(dc.names) :
                       j # i => dc.names[i] \notin TravelKeys(dc.result[j])

\* C15: whether the call returns or raises, every attraction of the caller's
\* list keeps the travel_info it had before the call; the computed
\* travel_info is carried by other objects, the returned copies.
C15_CallerListUnchanged ==
    dc.pc # "idle" =>
        /\ \A id \in 1..Len(dc.names) : dc.heap[id].travel_info = dc.prior
        /\ \A k \in 1..Len(dc.copies) : dc.copies[k] \notin 1..Len(dc.names)

\* a call that returned copies with a computed travel_info, the originals
\* having had none
C15_Witness ==
    /\ dc.pc = "returned"
    /\ dc.prior = NoneVal
    /\ Len(dc.result) = 2
    /\ TravelKeys(dc.result[1]) # {}
    /\ dc.heap[1].travel_info = NoneVal

\* C16: a failing geocoding or directions request affects only its
\* attraction or pair and the rest is still processed: the calculation
\* raises only when it has no API key.
C16_SingleFailureIsLocal ==
    dc.pc = "raised" => dc.error = "ValueError"


(***************************************************************************)
(* Properties of the planner helpers                                       *)
(***************************************************************************)
\* the first and last day each recognised date_range text stands for
RangeDays(date_range) ==
    CASE date_range = List(RangeJuly1To15) -> <<(<<2025, 7, 1>>), (<<2025, 7, 15>>)>>
      [] date_range = List(RangeJuly20ToAugust15) -> <<(<<2025, 7, 20>>), (<<2025, 8, 15>>)>>
      [] date_range = List(RangeJulyToAugust) -> <<(<<2025, 7, 1>>), (<<2025, 8, 31>>)>>

Recognised == {List(RangeJuly1To15), List(RangeJuly20ToAugust15), List(RangeJulyToAugust)}

Within(date_range, date) ==
    /\ ~DateBefore(date, RangeDays(date_range)[1])
    /\ ~DateBefore(RangeDays(date_range)[2], date)

\* C17: the batch planner's date matcher answers true for a date_range of
\* the form "Month D1-D2, YYYY" exactly when the date lies in the range,
\* false for a text it does not recognise, and true when there is no
\* date_range.
C17_BatchDateRange ==
    fn.name = "alt_is_attraction_available_on_date" =>
        /\ fn.args[1] = NoneVal => fn.result.v
        /\ fn.args[1] = List(RangeSometimeInSummer) => ~fn.result.v
        /\ fn.args[1] = List(RangeJuly1To15) =>
              (fn.result.v <=> Within(fn.args[1], fn.args[2]))

\* C18: the ReAct planner's date matcher recognises the three range forms
\* and answers true exactly when the date lies in the range; it answers
\* true for a text it does not recognise and when there is no date_range.
C18_ToolDateRange ==
    fn.name = "is_attraction_available_on_date" =>
        IF fn.args[1] \in Recognised
        THEN fn.result.v <=> Within(fn.args[1], fn.args[2])
        ELSE fn.result.v

\* the ranges, in minutes since midnight, each opening-hours text stands
\* for; no range for a text that is not a list of time ranges
HoursRanges(hours) ==
    CASE hours = HoursNineToFive -> {<<540, 1020>>}
      [] hours = HoursTwoRanges -> {<<600, 780>>, <<840, 1080>>}
      [] hours = HoursMeridiem -> {<<540, 1020>>}
      [] OTHER -> {}

\* the rules of the opening-hours check as a function of the hours text of
\* the day and the time in minutes
ReferenceOpen(opening_hours, date, minutes) ==
    IF opening_hours.t = "none" THEN TRUE
    ELSE LET day == IF HasKey(opening_hours, strftime_A(date)) THEN strftime_A(date)
                    ELSE "default"
         IN  IF ~HasKey(opening_hours, day) THEN FALSE
             ELSE IF Lower(opening_hours.f[day]) = <<"c", "l", "o", "s", "e", "d">> THEN FALSE
             ELSE IF HoursRanges(opening_hours.f[day]) = {} THEN TRUE
             ELSE \E r \in HoursRanges(opening_hours.f[day]) : r[1] <= minutes /\ minutes <= r[2]

\* C19: is_attraction_open_at_time and check_opening_hours agree with the
\* reference rules for every time of the form HH:MM: no hours open, no
\* entry for the weekday and no default closed, "closed" closed, time
\* ranges open exactly inside a range, any other text open.
C19_OpeningHoursReference ==
    fn.name = "check_opening_hours" /\ ParseTime(fn.args[3]) # -1 =>
        /\ fn.result.error = "none"
        /\ fn.result.open = ReferenceOpen(fn.args[1], strptime(fn.args[2], "%Y-%m-%d"),
                                          ParseTime(fn.args[3]))

\* an itinerary whose days are all inside the trip and whose activities
\* are at the attraction of the state, which has no opening hours
FullyValid(itinerary, opening_hours) ==
    /\ opening_hours = NoneVal
    /\ \A i \in 1..Len(itinerary) :
          /\ itinerary[i].date \in {DateText("dash", 2025, 7, 7), DateText("dash", 2025, 7, 8)}
          /\ \A k \in 1..Len(itinerary[i].activities) :
                itinerary[i].activities[k].attraction_name = "Museum"

\* C20: validate_itinerary returns normally on the state process builds,
\* valid is true exactly when there is no violation, violation_count is
\* the number of violations, and a fully valid itinerary is valid.
C20_ValidateItinerary ==
    fn.name = "validate_itinerary" =>
        /\ fn.result.error = "none"
        /\ fn.result.valid = (fn.result.violations = <<>>)
        /\ fn.result.violation_count = Len(fn.result.violations)
        /\ FullyValid(fn.args[1], fn.args[2]) => fn.result.valid


(***************************************************************************)
(* Further properties of the User Interface Agent                          *)
(***************************************************************************)
\* C26: a turn whose reply carries a start_date or end_date text that none
\* of the five formats parses ends with that text stored in the field.
C26_RawDateKept ==
    [][\A input_text \in UserTexts, pass_back \in BOOLEAN :
         \A reply \in RepliesTo(input_text) :
            \A k \in DateFields :
               (/\ reply.kind = "object"
                /\ k \in DOMAIN reply.fields
                /\ reply.fields[k] = DateNextWeek
                /\ Process(input_text, pass_back, reply))
               => user_preferences'[k] = DateNextWeek]_vars


(***************************************************************************)
(* Further properties of the HTTP API and of the browser UI                *)
(***************************************************************************)
\* the background tasks that have not ended
InFlight(tasks) == {i \in 1..Len(tasks) : tasks[i].pc \notin {"done", "failed"}}

\* C27: at most one background pipeline of the session is pending or
\* running at any time, and a chat request does not schedule a pipeline
\* while one is in flight nor after one has ended with the same preferences.
C27_OnePipelineInFlight ==
    /\ [](Cardinality(InFlight(background_tasks)) <= 1)
    /\ [][Len(background_tasks') > Len(background_tasks) =>
            /\ InFlight(background_tasks) = {}
            /\ background_tasks # <<>> => user_preferences' # user_preferences]_vars

\* C28: once processing_status is set, a run of the script that handles a
\* user message does not move it backwards and does not run the report
\* stage again when the report stage has already completed.
C28_MessageNeverRestarts ==
    [][(/\ Len(conversation_history') > Len(conversation_history)
        /\ processing_status # NoneVal)
       => (/\ StatusRank(processing_status') >= StatusRank(processing_status)
           /\ StatusRank(processing_status) >= 2 =>
                 ui_last'.stage # "destination_report")]_vars

(***************************************************************************)
(* Properties of the whole-trip planners                                   *)
(***************************************************************************)
\* a call of process of one of the planners has returned
AltReturned == fn.name = "TripPlanningAltAgent.process"
ReactReturned == fn.name = "TripPlanningReactAgent.process"
Catalogue == fn.args[1]
Excluded == fn.args[2]
StartDate == fn.args[3]
NumDays == fn.args[4]
RankingGiven == fn.args[5]
PlanGiven == fn.args[6]

\* the days of a trip and the activities of each day are in time order
InTimeOrder(trip) ==
    /\ \A d \in 1..(Len(trip.days) - 1) :
          DayNumber(trip.days[d].date) <= DayNumber(trip.days[d + 1].date)
    /\ \A d \in 1..Len(trip.days) :
          \A i \in 1..(Len(trip.days[d].activities) - 1) :
              trip.days[d].activities[i].start_time
                 <= trip.days[d].activities[i + 1].start_time

\* C21: the Trip either planner returns has the activities of every day in
\* non-decreasing start_time order and the days in non-decreasing date
\* order, whatever order the language model emitted them in.
C21_TripInTimeOrder ==
    (AltReturned \/ ReactReturned) /\ fn.result.trip.t = "trip"
        => InTimeOrder(fn.result.trip)

\* the names of the attractions of the activities of a trip, with repeats
ActivityCount(trip, name) ==
    Cardinality({<<d, i>> \in (1..Len(trip.days)) \X (1..6) :
                    /\ i <= Len(trip.days[d].activities)
                    /\ trip.days[d].activities[i].attraction # NoneVal
                    /\ trip.days[d].activities[i].attraction.name = name})

\* C22: when the final message of the tool-based planner does not parse as
\* JSON, process still returns a Trip: one day for each calendar day of the
\* trip, at most three activities a day, no attraction in two activities.
C22_ReactFallbackTrip ==
    ReactReturned /\ PlanGiven.kind # "object"
        => /\ fn.result.trip.t = "trip"
           /\ Len(fn.result.trip.days) = NumDays
           /\ \A d \in 1..Len(fn.result.trip.days) :
                 Len(fn.result.trip.days[d].activities) <= 3
           /\ \A i \in 1..Len(Catalogue) :
                 ActivityCount(fn.result.trip, Catalogue[i].name) <= 1

\* C23: when the ranking reply does not parse, both planners give the i-th
\* attraction of a category, counted from 0 in catalogue order, the score
\* max(10 - i, 1), and keep the catalogue order.
C23_FallbackScores ==
    (AltReturned \/ ReactReturned) /\ RankingGiven = Unparseable
        => \A c \in 1..Len(fn.result.ranked_categories) :
              LET rankings == fn.result.ranked_categories[c].attractions
                  members == OfCategory(Grouped(Catalogue, Excluded),
                                        fn.result.ranked_categories[c].category)
              IN  /\ Len(rankings) = Len(members)
                  /\ \A i \in 1..Len(rankings) :
                        /\ rankings[i].attraction = members[i]
                        /\ rankings[i].score = Max(10 - (i - 1), 1)

\* the activities of a day start at 09:00 and follow each other 30 minutes
\* apart
Chained(day) ==
    /\ day.activities[1].start_time = Combine(day.date, 9 * 60)
    /\ \A i \in 1..(Len(day.activities) - 1) :
          day.activities[i + 1].start_time = day.activities[i].end_time + 30

ClockRank(activities, i) ==
    1 + Cardinality({j \in 1..Len(activities) :
                        \/ ClockMinutes(activities[j].start_time)
                             < ClockMinutes(activities[i].start_time)
                        \/ /\ ClockMinutes(activities[j].start_time)
                                = ClockMinutes(activities[i].start_time)
                           /\ j < i})

Chronological(activities) ==
    [k \in 1..Len(activities) |->
        activities[CHOOSE i \in 1..Len(activities) : ClockRank(activities, i) = k]]

\* C25: check_schedule_gaps reports a gap between two consecutive
\* activities of the day in chronological order, for times written H:MM or
\* HH:MM, exactly when the next starts more than an hour after the earlier
\* ends and the earlier ends at an hour from 9 to 18; has_gaps is true
\* exactly when there is such a gap.
C25_GapsReported ==
    fn.name = "check_schedule_gaps"
        => /\ fn.result.has_gaps
                = (\E i \in 1..(Len(fn.args[1]) - 1) : Flagged(Chronological(fn.args[1]), i))
           /\ \A i \in 1..(Len(fn.args[1]) - 1) :
                 Flagged(Chronological(fn.args[1]), i)
                    <=> \E g \in 1..Len(fn.result.gaps) :
                           fn.result.gaps[g] = Gap(Chronological(fn.args[1]), i)

\* C29: in the fallback planning of the batch planner, every name a day
\* adds to used_attractions is the attraction of an activity of that day,
\* however many categories there are.
C29_UsedIsScheduled ==
    AltReturned /\ PlanGiven.kind = "invalid_json"
        => \A d \in 1..Len(fn.result.log) :
              \A name \in fn.result.log[d].added :
                 \E i \in 1..Len(fn.result.log[d].activities) :
                    fn.result.log[d].activities[i].attraction.name = name

\* C30: no activity of the Trip the batch planner returns has an attraction
\* of an excluded category, and no such attraction is in ranked_categories.
C30_ExcludedNeverPlanned ==
    AltReturned
        => /\ \A d \in 1..Len(fn.result.trip.days) :
                 \A i \in 1..Len(fn.result.trip.days[d].activities) :
                    fn.result.trip.days[d].activities[i].attraction # NoneVal
                       => fn.result.trip.days[d].activities[i].attraction.category
                             \notin Excluded
           /\ \A c \in 1..Len(fn.result.ranked_categories) :
                 \A i \in 1..Len(fn.result.ranked_categories[c].attractions) :
                    fn.result.ranked_categories[c].attractions[i].attraction.category
                       \notin Excluded

====
